---- MODULE Spec2Model ----
(***************************************************************************)
(* LoTW consumer: reconciliation of confirmations fetched from the remote  *)
(* logbook service against the tlog_qso table, and the retry policy of the *)
(* RabbitMQ message handler.                                               *)
(*                                                                         *)
(* Text values are sequences of one-character strings, so that slicing,    *)
(* padding and splitting are computed as the Python code computes them.    *)
(* Python's None is the empty sequence.                                    *)
(***************************************************************************)
EXTENDS Integers, Sequences, FiniteSets, TLC

VARIABLES
    tlog_qso,       \* committed rows of table tlog_qso
    lotw_lastsync,  \* tlog_radioprofile.lotw_lastsync of the account
    queues,         \* messages of each RabbitMQ queue, oldest first
    sent,           \* number of messages published to RABBITMQ_EXCHANGE so far
    last,           \* history: inputs and outcome of the last delivery handled
    w,              \* position and locals of each worker inside process_qso_batch
    consumer        \* the consumer process: its channel and the delivery it holds

vars == <<tlog_qso, lotw_lastsync, queues, sent, last, w, consumer>>

None == <<>>

\* ------------------------------------------------------------- text helpers

DigitChars == <<"0", "1", "2", "3", "4", "5", "6", "7", "8", "9">>

LowerChars ==
    <<"a", "b", "c", "d", "e", "f", "g", "h", "i", "j", "k", "l", "m",
      "n", "o", "p", "q", "r", "s", "t", "u", "v", "w", "x", "y", "z">>

UpperChars ==
    <<"A", "B", "C", "D", "E", "F", "G", "H", "I", "J", "K", "L", "M",
      "N", "O", "P", "Q", "R", "S", "T", "U", "V", "W", "X", "Y", "Z">>

\* The value of each decimal digit, and the upper-case form of each lower-case
\* letter, as lookup tables.
digit_value ==
    [c \in {DigitChars[i] : i \in DOMAIN DigitChars} |->
        (CHOOSE i \in DOMAIN DigitChars : DigitChars[i] = c) - 1]

to_upper ==
    [c \in {LowerChars[k] : k \in DOMAIN LowerChars} |->
        UpperChars[CHOOSE k \in DOMAIN LowerChars : LowerChars[k] = c]]

IsDigit(c) == c \in DOMAIN digit_value

DigitVal(c) == digit_value[c]

\* str.upper()
upper(s) ==
    [i \in DOMAIN s |-> IF s[i] \in DOMAIN to_upper THEN to_upper[s[i]] ELSE s[i]]

\* str.strip()
RECURSIVE lstrip(_)
lstrip(s) == IF s # <<>> /\ Head(s) = " " THEN lstrip(Tail(s)) ELSE s

RECURSIVE rstrip(_)
rstrip(s) ==
    IF s # <<>> /\ s[Len(s)] = " " THEN rstrip(SubSeq(s, 1, Len(s) - 1)) ELSE s

strip(s) == rstrip(lstrip(s))

\* str.zfill(width): zeros on the left, after a leading sign
zfill(s, width) ==
    IF Len(s) >= width THEN s
    ELSE LET zeros == [i \in 1..(width - Len(s)) |-> "0"]
         IN  IF s # <<>> /\ Head(s) \in {"+", "-"}
             THEN <<Head(s)>> \o zeros \o Tail(s)
             ELSE zeros \o s

\* s[:n]
Prefix(s, n) == SubSeq(s, 1, IF Len(s) < n THEN Len(s) ELSE n)

\* sub in s
Contains(sub, s) ==
    \E i \in 1..(Len(s) - Len(sub) + 1) : SubSeq(s, i, i + Len(sub) - 1) = sub

\* int(s) succeeds
IsInt(s) == s # <<>> /\ \A i \in DOMAIN s : IsDigit(s[i])

\* int(s), for IsInt(s)
RECURSIVE IntOf(_)
IntOf(s) ==
    IF s = <<>> THEN 0
    ELSE IntOf(SubSeq(s, 1, Len(s) - 1)) * 10 + DigitVal(s[Len(s)])

\* s.split(sep) for a one-character sep: the list of parts
RECURSIVE split(_, _)
split(s, sep) ==
    IF \E i \in DOMAIN s : s[i] = sep
    THEN LET i == CHOOSE k \in DOMAIN s :
                    s[k] = sep /\ \A j \in 1..(k - 1) : s[j] # sep
         IN  <<SubSeq(s, 1, i - 1)>> \o split(SubSeq(s, i + 1, Len(s)), sep)
    ELSE <<s>>

\* s.split('//')[0]
BeforeComment(s) ==
    IF \E i \in 1..(Len(s) - 1) : s[i] = "/" /\ s[i + 1] = "/"
    THEN LET i == CHOOSE k \in 1..(Len(s) - 1) :
                    /\ s[k] = "/" /\ s[k + 1] = "/"
                    /\ \A j \in 1..(k - 1) : ~(s[j] = "/" /\ s[j + 1] = "/")
         IN  SubSeq(s, 1, i - 1)
    ELSE s

\* a > b for two datetimes <<year, month, day, hour, minute, second>>
RECURSIVE LexGreater(_, _)
LexGreater(a, b) ==
    IF a = <<>> \/ b = <<>> THEN FALSE
    ELSE IF Head(a) # Head(b) THEN Head(a) > Head(b)
    ELSE LexGreater(Tail(a), Tail(b))

\* --------------------------------------------------------- lotw/parser.py

\* \w of a regular expression
IsWordChar(ch) ==
    \/ ch \in DOMAIN to_upper
    \/ \E k \in DOMAIN UpperChars : UpperChars[k] = ch
    \/ IsDigit(ch)
    \/ ch = "_"

\* s has sub at index i
StartsWith(s, i, sub) ==
    /\ i + Len(sub) - 1 <= Len(s)
    /\ SubSeq(s, i, i + Len(sub) - 1) = sub

\* s.find(sub) + 1: the index of the first occurrence, 0 when there is none
Find(s, sub) ==
    IF \E i \in 1..Len(s) : StartsWith(s, i, sub)
    THEN CHOOSE i \in 1..Len(s) :
            StartsWith(s, i, sub) /\ \A j \in 1..(i - 1) : ~StartsWith(s, j, sub)
    ELSE 0

\* s.split(sep) for a separator of any length
RECURSIVE SplitOn(_, _)
SplitOn(s, sep) ==
    IF Find(s, sep) = 0 THEN <<s>>
    ELSE <<SubSeq(s, 1, Find(s, sep) - 1)>>
            \o SplitOn(SubSeq(s, Find(s, sep) + Len(sep), Len(s)), sep)

\* The last index of the longest run of \w from index i (i - 1: no run).
WordEnd(s, i) ==
    CHOOSE j \in (i - 1)..Len(s) :
       /\ \A k \in i..j : IsWordChar(s[k])
       /\ j = Len(s) \/ ~IsWordChar(s[j + 1])

\* The last index of the longest run of \d from index i.
DigitEnd(s, i) ==
    CHOOSE j \in (i - 1)..Len(s) :
       /\ \A k \in i..j : IsDigit(s[k])
       /\ j = Len(s) \/ ~IsDigit(s[j + 1])

\* The last index of the longest run of [^<] from index i.
ValueEnd(s, i) ==
    CHOOSE j \in (i - 1)..Len(s) :
       /\ \A k \in i..j : s[k] # "<"
       /\ j = Len(s) \/ s[j + 1] = "<"

\* re.sub(r'//.*', '', block): each // is removed with the rest of its line.
RECURSIVE StripComments(_)
StripComments(block) ==
    IF Find(block, <<"/", "/">>) = 0 THEN block
    ELSE LET i    == Find(block, <<"/", "/">>)
             rest == SubSeq(block, i, Len(block))
             nl   == Find(rest, <<"\n">>)
         IN  SubSeq(block, 1, i - 1)
                \o (IF nl = 0 THEN <<>>
                    ELSE StripComments(SubSeq(rest, nl, Len(rest))))

\* pattern_with_length = r'<(\w+):(\d+)>(.{0,\2})' matched at index i. A brace
\* whose bounds are not numbers is no quantifier: the third group is one
\* character other than a newline, the text '{0,', the digits of the second
\* group again and '}'. The match as [name, value, end], end = 0: no match.
MatchWithLength(s, i) ==
    LET j    == WordEnd(s, i + 1)
        k    == DigitEnd(s, j + 2)
        tail == <<"{", "0", ",">> \o SubSeq(s, j + 2, k) \o <<"}">>
    IN  IF /\ s[i] = "<"
           /\ j >= i + 1
           /\ StartsWith(s, j + 1, <<":">>)
           /\ k >= j + 2
           /\ StartsWith(s, k + 1, <<">">>)
           /\ k + 2 <= Len(s) /\ s[k + 2] # "\n"
           /\ StartsWith(s, k + 3, tail)
        THEN [name |-> SubSeq(s, i + 1, j),
              value |-> SubSeq(s, k + 2, k + 2 + Len(tail)),
              end |-> k + 2 + Len(tail)]
        ELSE [name |-> <<>>, value |-> <<>>, end |-> 0]

\* pattern_without_length = r'<(\w+)>([^<]*)' matched at index i.
MatchWithoutLength(s, i) ==
    LET j == WordEnd(s, i + 1)
    IN  IF /\ s[i] = "<"
           /\ j >= i + 1
           /\ StartsWith(s, j + 1, <<">">>)
        THEN [name |-> SubSeq(s, i + 1, j),
              value |-> SubSeq(s, j + 2, ValueEnd(s, j + 2)),
              end |-> ValueEnd(s, j + 2)]
        ELSE [name |-> <<>>, value |-> <<>>, end |-> 0]

\* re.findall: the matches from index i on, left to right, not overlapping.
RECURSIVE FindAllWithLength(_, _)
FindAllWithLength(s, i) ==
    IF i > Len(s) THEN <<>>
    ELSE IF MatchWithLength(s, i).end # 0
    THEN <<MatchWithLength(s, i)>>
            \o FindAllWithLength(s, MatchWithLength(s, i).end + 1)
    ELSE FindAllWithLength(s, i + 1)

RECURSIVE FindAllWithoutLength(_, _)
FindAllWithoutLength(s, i) ==
    IF i > Len(s) THEN <<>>
    ELSE IF MatchWithoutLength(s, i).end # 0
    THEN <<MatchWithoutLength(s, i)>>
            \o FindAllWithoutLength(s, MatchWithoutLength(s, i).end + 1)
    ELSE FindAllWithoutLength(s, i + 1)

\* The dict filled from the matches in order: qso[name.upper()] = value.strip()
\* for each match whose stripped value is not empty; a later match of a name
\* replaces an earlier one.
RECURSIVE FieldsOf(_)
FieldsOf(matches) ==
    IF matches = <<>> THEN <<>>
    ELSE LET m     == matches[Len(matches)]
             front == FieldsOf(SubSeq(matches, 1, Len(matches) - 1))
         IN  IF strip(m.value) = <<>> THEN front
             ELSE (upper(m.name) :> strip(m.value)) @@ front

CALL == <<"C", "A", "L", "L">>

\* The record of one block, as a one-element list; the empty list when the
\* block gives no CALL.
parse_block(block) ==
    LET after == IF Find(block, <<"<", "e", "o", "h", ">">>) = 0 THEN block
                 ELSE SplitOn(block, <<"<", "e", "o", "h", ">">>)[2]
        text  == StripComments(after)
        qso   == FieldsOf(FindAllWithLength(text, 1) \o FindAllWithoutLength(text, 1))
    IN  IF CALL \in DOMAIN qso THEN <<qso>> ELSE <<>>

RECURSIVE parse_blocks(_)
parse_blocks(qso_blocks) ==
    IF qso_blocks = <<>> THEN <<>>
    ELSE (IF strip(Head(qso_blocks)) = <<>> THEN <<>>
          ELSE parse_block(Head(qso_blocks)))
         \o parse_blocks(Tail(qso_blocks))

\* ADIFParser.parse_adif_response_all_fields: the list of records of a response.
parse_adif_response_all_fields(content) ==
    IF Find(content, <<"<", "e", "o", "r", ">">>) = 0 /\ Find(content, <<"Q", "S", "O", "_", "D", "A", "T", "E">>) = 0
    THEN <<>>
    ELSE LET body   == SplitOn(content, <<"<", "A", "P", "P", "_", "L", "o", "T", "W", "_", "E", "O", "F", ">">>)[1]
             i      == Find(body, <<"<", "e", "o", "h", ">">>)
             no_eoh == IF i = 0 THEN body ELSE SubSeq(body, i + 5, Len(body))
         IN  parse_blocks(SplitOn(no_eoh, <<"<", "e", "o", "r", ">">>))

\* ----------------------------------------------------- lotw/normalizer.py

\* The keys of band_mapping, in the order the dictionary lists them.
band_mapping ==
    << <<"1", "6", "0", "M">>, <<"8", "0", "M">>, <<"4", "0", "M">>,
       <<"3", "0", "M">>, <<"2", "0", "M">>, <<"1", "7", "M">>,
       <<"1", "5", "M">>, <<"1", "2", "M">>, <<"1", "0", "M">>,
       <<"6", "M">>, <<"2", "M">>, <<"7", "0", "C", "M">>,
       <<"2", "3", "C", "M">>, <<"1", "3", "C", "M">> >>

normalize_band(band_str) ==
    IF band_str = <<>> THEN <<>>
    ELSE LET b == strip(upper(band_str))
         IN  IF \E k \in DOMAIN band_mapping : band_mapping[k] = b THEN b
             ELSE IF \E k \in DOMAIN band_mapping : Contains(band_mapping[k], b)
             THEN band_mapping[CHOOSE k \in DOMAIN band_mapping :
                        /\ Contains(band_mapping[k], b)
                        /\ \A j \in 1..(k - 1) : ~Contains(band_mapping[j], b)]
             ELSE b

Midnight == <<"0", "0", ":", "0", "0", ":", "0", "0">>

\* normalize_time without the padding of zfill(4).
normalize_time_unpadded(time_str) ==
    IF time_str = <<>> THEN Midnight
    ELSE LET t == strip(time_str)
         IN  IF Len(t) = 4
             THEN SubSeq(t, 1, 2) \o <<":">> \o SubSeq(t, 3, 4) \o <<":", "0", "0">>
             ELSE IF Len(t) = 6
             THEN SubSeq(t, 1, 2) \o <<":">> \o SubSeq(t, 3, 4)
                      \o <<":">> \o SubSeq(t, 5, 6)
             ELSE Midnight

\* HHMM or HHMMSS to HH:MM:SS; any other length is midnight.
normalize_time(time_str) ==
    IF time_str = <<>> THEN Midnight
    ELSE LET t == zfill(strip(time_str), 4)
         IN  IF Len(t) = 4
             THEN SubSeq(t, 1, 2) \o <<":">> \o SubSeq(t, 3, 4) \o <<":", "0", "0">>
             ELSE IF Len(t) = 6
             THEN SubSeq(t, 1, 2) \o <<":">> \o SubSeq(t, 3, 4)
                      \o <<":">> \o SubSeq(t, 5, 6)
             ELSE Midnight

\* YYYYMMDD to YYYY-MM-DD; any other length is the empty date.
normalize_date(date_str) ==
    IF date_str = <<>> THEN <<>>
    ELSE LET d == strip(date_str)
         IN  IF Len(d) = 8
             THEN SubSeq(d, 1, 4) \o <<"-">> \o SubSeq(d, 5, 6)
                      \o <<"-">> \o SubSeq(d, 7, 8)
             ELSE <<>>

MFSK == <<"M", "F", "S", "K">>

get_mode(qso_data) ==
    LET mode == upper(qso_data.MODE)
    IN  IF mode = MFSK /\ qso_data.SUBMODE # <<>>
        THEN Prefix(upper(qso_data.SUBMODE), 10)
        ELSE Prefix(mode, 10)

get_lotw_status(qso_data) ==
    IF upper(qso_data.QSL_RCVD) = <<"Y">> THEN <<"Y">> ELSE <<"N">>

\* datetime.strptime(date_part, '%Y-%m-%d %H:%M:%S') succeeds
IsTimestamp(s) ==
    /\ Len(s) = 19
    /\ s[5] = "-" /\ s[8] = "-" /\ s[11] = " " /\ s[14] = ":" /\ s[17] = ":"
    /\ \A i \in (1..19) \ {5, 8, 11, 14, 17} : IsDigit(s[i])
    /\ IntOf(SubSeq(s, 6, 7)) \in 1..12
    /\ IntOf(SubSeq(s, 9, 10)) \in 1..31
    /\ IntOf(SubSeq(s, 12, 13)) \in 0..23
    /\ IntOf(SubSeq(s, 15, 16)) \in 0..59
    /\ IntOf(SubSeq(s, 18, 19)) \in 0..61

\* The last day of a month of the calendar of datetime.
DaysInMonth(year, month) ==
    IF month = 2
    THEN IF year % 4 = 0 /\ (year % 100 # 0 \/ year % 400 = 0) THEN 29 ELSE 28
    ELSE IF month \in {4, 6, 9, 11} THEN 30 ELSE 31

\* The last index of the longest run of spaces from index i.
SpaceEnd(s, i) ==
    CHOOSE j \in (i - 1)..Len(s) :
       /\ \A k \in i..j : s[k] = " "
       /\ j = Len(s) \/ s[j + 1] # " "

\* strptime from the hour on: got holds the fields read so far, the digits
\* s[i..j] are the next of hour, minute, second. A field is one or two digits,
\* a colon follows hour and minute, nothing follows the second.
RECURSIVE strptime_clock(_, _, _, _)
strptime_clock(s, got, i, j) ==
    IF /\ j - i + 1 \in 1..2
       /\ IntOf(SubSeq(s, i, j)) <= (IF Len(got) = 3 THEN 23 ELSE 59)
    THEN IF Len(got) = 5
         THEN (IF j = Len(s) THEN got \o <<IntOf(SubSeq(s, i, j))>> ELSE None)
         ELSE IF j + 1 <= Len(s) /\ s[j + 1] = ":"
         THEN strptime_clock(s, got \o <<IntOf(SubSeq(s, i, j))>>,
                             j + 2, DigitEnd(s, j + 2))
         ELSE None
    ELSE None

\* strptime from the day on: the digits s[i..j] are the day, of at most
\* `width` digits; one or more spaces follow it.
strptime_day(s, got, i, j, width) ==
    IF /\ j - i + 1 \in 1..width
       /\ IntOf(SubSeq(s, i, j)) \in 1..DaysInMonth(got[1], got[2])
       /\ j + 1 <= Len(s) /\ s[j + 1] = " "
    THEN strptime_clock(s, got \o <<IntOf(SubSeq(s, i, j))>>,
                        SpaceEnd(s, j + 1) + 1,
                        DigitEnd(s, SpaceEnd(s, j + 1) + 1))
    ELSE None

\* strptime from the month on: the digits s[6..j] are the month; a dash
\* follows it, then the day, of one or two digits or a space and one digit.
strptime_month(s, got, j) ==
    IF /\ j \in 6..7
       /\ IntOf(SubSeq(s, 6, j)) \in 1..12
       /\ j + 2 <= Len(s) /\ s[j + 1] = "-"
    THEN IF s[j + 2] = " "
         THEN strptime_day(s, got \o <<IntOf(SubSeq(s, 6, j))>>,
                           j + 3, DigitEnd(s, j + 3), 1)
         ELSE strptime_day(s, got \o <<IntOf(SubSeq(s, 6, j))>>,
                           j + 2, DigitEnd(s, j + 2), 2)
    ELSE None

\* datetime.strptime(s, '%Y-%m-%d %H:%M:%S') as
\* <<year, month, day, hour, minute, second>>; None when it raises ValueError.
\* %Y is four digits; the other fields are one or two digits (the day also a
\* space and one digit), a space of the format is one or more spaces, nothing
\* may follow the seconds, and datetime refuses year 0, a day the month does
\* not have and a second above 59.
strptime(s) ==
    IF /\ Len(s) >= 6
       /\ \A i \in 1..4 : IsDigit(s[i])
       /\ s[5] = "-"
       /\ IntOf(SubSeq(s, 1, 4)) >= 1
    THEN strptime_month(s, <<IntOf(SubSeq(s, 1, 4))>>, DigitEnd(s, 6))
    ELSE None

\* parse_lotw_rxqsl with the current time in place of a value that does not
\* parse.
parse_lotw_rxqsl_or_now(rxqsl_str) ==
    IF rxqsl_str = <<>> \/ strptime(strip(BeforeComment(rxqsl_str))) = None
    THEN <<2024, 3, 2, 10, 0, 0>>
    ELSE strptime(strip(BeforeComment(rxqsl_str)))

\* APP_LOTW_RXQSL without its trailing comment, as a datetime
\* <<year, month, day, hour, minute, second>>; None when it does not parse.
parse_lotw_rxqsl(rxqsl_str) ==
    IF rxqsl_str = <<>> THEN None
    ELSE strptime(strip(BeforeComment(rxqsl_str)))

\* cty.dat: prefix -> primary prefix of the entity (the lookup collaborator).
prefix_map(prefix) ==
    IF prefix = <<"U", "A">> THEN <<"U", "A">>
    ELSE IF prefix = <<"R">> THEN <<"U", "A">>
    ELSE None

\* Longest prefix of the callsign that cty.dat lists.
get_dxcc_from_cty(callsign) ==
    LET c == strip(upper(callsign))
        hits == {n \in 1..Len(c) : prefix_map(SubSeq(c, 1, n)) # None}
    IN  IF hits = {} THEN None
        ELSE prefix_map(SubSeq(c, 1, CHOOSE n \in hits : \A k \in hits : k <= n))

prepare_qso_data(qso_data, my_callsign) ==
    LET callsign == upper(qso_data.CALL)
        country  == strip(upper(qso_data.COUNTRY))
    IN  [ band           |-> normalize_band(qso_data.BAND),
          mode           |-> get_mode(qso_data),
          date           |-> normalize_date(qso_data.QSO_DATE),
          time           |-> normalize_time(qso_data.TIME_ON),
          lotw           |-> get_lotw_status(qso_data),
          gridsquare     |-> qso_data.GRIDSQUARE,
          app_lotw_rxqsl |-> parse_lotw_rxqsl(qso_data.APP_LOTW_RXQSL),
          rst_sent       |-> qso_data.RST_SENT,
          dxcc           |-> IF country = <<>> /\ callsign # <<>>
                             THEN get_dxcc_from_cty(callsign) ELSE country,
          callsign       |-> callsign,
          my_callsign    |-> upper(my_callsign) ]

\* ------------------------------------------------------------ the catalog

R3LO == <<"R", "3", "L", "O">>

\* One record of a remote response, as parse_adif returns it (absent fields
\* read as empty).
EmptyRecord ==
    [CALL |-> <<>>, QSO_DATE |-> <<>>, TIME_ON |-> <<>>, BAND |-> <<>>,
     MODE |-> <<>>, SUBMODE |-> <<>>, QSL_RCVD |-> <<>>, APP_LOTW_RXQSL |-> <<>>,
     COUNTRY |-> <<>>, GRIDSQUARE |-> <<>>, RST_SENT |-> <<>>]

\* A contact confirmed on 2024-02-01.
QsoA ==
    [EmptyRecord EXCEPT !.CALL = <<"U", "A", "1", "A", "B", "C">>, !.QSO_DATE = <<"2", "0", "2", "4", "0", "1", "1", "5">>,
                        !.TIME_ON = <<"1", "2", "3", "0">>, !.BAND = <<"2", "0", "M">>, !.MODE = <<"C", "W">>,
                        !.QSL_RCVD = <<"Y">>, !.APP_LOTW_RXQSL = <<"2", "0", "2", "4", "-", "0", "2", "-", "0", "1", " ", "0", "0", ":", "0", "0", ":", "0", "0">>]

\* The same contact logged two minutes later by the other side, confirmed later.
QsoB ==
    [QsoA EXCEPT !.TIME_ON = <<"1", "2", "3", "2">>, !.APP_LOTW_RXQSL = <<"2", "0", "2", "4", "-", "0", "3", "-", "0", "1", " ", "0", "0", ":", "0", "0", ":", "0", "0">>]

\* The same contact logged six minutes after QsoA, without a confirmation time
\* and with the country named.
QsoC ==
    [QsoA EXCEPT !.TIME_ON = <<"1", "2", "3", "6">>, !.APP_LOTW_RXQSL = <<>>, !.COUNTRY = <<"R", "U", "S", "S", "I", "A">>]

\* A record without BAND: process_qso_batch skips it.
QsoE ==
    [QsoA EXCEPT !.BAND = <<>>]

\* The records a response may hold: for the whole consumer, and for
\* process_qso_batch run directly.
ApiRecords == {QsoA, QsoB}

Records == {QsoA, QsoB, QsoC}

\* prepare_qso_data of each record of the catalog for my_callsign R3LO,
\* computed once.
prepared == [q \in Records |-> prepare_qso_data(q, R3LO)]

\* ------------------------------------------------ PostgreSQL, as the code uses it

\* A text that casts to date ('YYYY-MM-DD').
IsDate(d) ==
    /\ Len(d) = 10
    /\ d[5] = "-" /\ d[8] = "-"
    /\ \A i \in (1..10) \ {5, 8} : IsDigit(d[i])
    /\ IntOf(SubSeq(d, 6, 7)) \in 1..12
    /\ IntOf(SubSeq(d, 9, 10)) \in 1..31

\* A text 'HH:MM' that casts to time.
IsTime(t) ==
    /\ Len(t) = 5
    /\ t[3] = ":"
    /\ \A i \in {1, 2, 4, 5} : IsDigit(t[i])
    /\ IntOf(SubSeq(t, 1, 2)) \in 0..23
    /\ IntOf(SubSeq(t, 4, 5)) \in 0..59

\* 'HH:MM'::time read back as time::text
TimeText(t) == t \o <<":", "0", "0">>

\* The columns of constraint unique_qso.
unique_qso(row) ==
    <<row.user_id, row.callsign, row.my_callsign, row.date, row.band, row.mode,
      row.time>>

\* uuid.uuid4(): an identifier no row of the table has.
uuid4(db) == Cardinality(db) + 1

\* All enumerations of a finite set: the orders in which a SELECT without
\* ORDER BY may return its rows.
Orders(S) ==
    {s \in [1..Cardinality(S) -> S] : \A i, j \in DOMAIN s : s[i] = s[j] => i = j}

\* ------------------------------------------------- database/operations.py

\* h * 3600 + m * 60 of the first five characters of a time text, as the
\* matcher computes it; -1 when map(int, ...split(':')) raises.
time_seconds(time) ==
    LET parts == split(Prefix(time, 5), ":")
    IN  IF Len(parts) = 2 /\ IsInt(parts[1]) /\ IsInt(parts[2])
        THEN IntOf(parts[1]) * 3600 + IntOf(parts[2]) * 60
        ELSE -1

\* time_seconds of the time texts of the catalog, computed once.
catalog_seconds == [t \in {prepared[q].time : q \in Records} |-> time_seconds(t)]

seconds(time) ==
    IF time \in DOMAIN catalog_seconds THEN catalog_seconds[time]
    ELSE time_seconds(time)

abs(n) == IF n < 0 THEN -n ELSE n

\* Matches without the comparison of the dates.
MatchesAnyDate(q, ex) ==
    /\ q.callsign = ex.callsign
    /\ q.band = ex.band
    /\ q.mode = ex.mode
    /\ seconds(q.time) # -1
    /\ seconds(ex.time) # -1
    /\ abs(seconds(q.time) - seconds(ex.time)) <= 300

\* The match rule of the three loops (lookup filter, classification, update):
\* equal callsign, date, band, mode and minute-resolution times at most 300 s apart.
Matches(q, ex) ==
    /\ q.callsign = ex.callsign
    /\ q.date = ex.date
    /\ q.band = ex.band
    /\ q.mode = ex.mode
    /\ LET qso_seconds == seconds(q.time)
           ex_seconds  == seconds(ex.time)
       IN  /\ qso_seconds # -1
           /\ ex_seconds # -1
           /\ abs(qso_seconds - ex_seconds) <= 300

\* Index of the first element of existing_qsos that matches q; 0 when none does.
RECURSIVE FirstMatchFrom(_, _, _)
FirstMatchFrom(q, existing_qsos, j) ==
    IF j > Len(existing_qsos) THEN 0
    ELSE IF Matches(q, existing_qsos[j]) THEN j
    ELSE FirstMatchFrom(q, existing_qsos, j + 1)

FirstMatch(q, existing_qsos) == FirstMatchFrom(q, existing_qsos, 1)

\* _should_update_qso updating also when the two times are equal.
_should_update_not_older(new_q, existing_q) ==
    IF existing_q.app_lotw_rxqsl = None THEN TRUE
    ELSE IF new_q.app_lotw_rxqsl = None THEN TRUE
    ELSE ~LexGreater(existing_q.app_lotw_rxqsl, new_q.app_lotw_rxqsl)

_should_update_qso(new_q, existing_q) ==
    IF existing_q.app_lotw_rxqsl = None THEN TRUE
    ELSE IF new_q.app_lotw_rxqsl = None THEN TRUE
    ELSE LexGreater(new_q.app_lotw_rxqsl, existing_q.app_lotw_rxqsl)

\* The rows the batched SELECT of _find_existing_batch returns, as a set:
\* rows of the user whose (callsign, date, band, mode) is that of some record.
SelectExisting(db, normalized_list, user_id) ==
    {row \in db :
        /\ row.user_id = user_id
        /\ \E i \in DOMAIN normalized_list :
              /\ normalized_list[i].callsign = row.callsign
              /\ normalized_list[i].date = row.date
              /\ normalized_list[i].band = row.band
              /\ normalized_list[i].mode = row.mode}

\* The SELECT raises when a record's date does not cast to date.
SelectRaises(normalized_list) ==
    \E i \in DOMAIN normalized_list : ~IsDate(normalized_list[i].date)

\* The dictionary built from a fetched row.
ExistingDict(row) ==
    [id |-> row.id, callsign |-> row.callsign, date |-> row.date,
     band |-> row.band, mode |-> row.mode, time |-> row.time,
     app_lotw_rxqsl |-> row.app_lotw_rxqsl]

\* The list "filtered": for each record in turn, the first fetched row matching it.
RECURSIVE Filtered(_, _)
Filtered(normalized_list, existing_qsos) ==
    IF normalized_list = <<>> THEN <<>>
    ELSE LET j == FirstMatch(Head(normalized_list), existing_qsos)
         IN  (IF seconds(Head(normalized_list).time) # -1 /\ j # 0
              THEN <<existing_qsos[j]>> ELSE <<>>)
             \o Filtered(Tail(normalized_list), existing_qsos)

\* rows: the fetched rows in the order the SELECT returned them;
\* error: the SELECT raised (the except branch returns the empty list).
_find_existing_batch(normalized_list, rows, error) ==
    IF normalized_list = <<>> \/ error THEN <<>>
    ELSE Filtered(normalized_list, [i \in DOMAIN rows |-> ExistingDict(rows[i])])

\* The classification loop of process_qso_batch.
RECURSIVE new_qsos(_, _)
new_qsos(normalized_list, existing_qsos) ==
    IF normalized_list = <<>> THEN <<>>
    ELSE (IF FirstMatch(Head(normalized_list), existing_qsos) = 0
          THEN <<Head(normalized_list)>> ELSE <<>>)
         \o new_qsos(Tail(normalized_list), existing_qsos)

RECURSIVE update_qsos(_, _)
update_qsos(normalized_list, existing_qsos) ==
    IF normalized_list = <<>> THEN <<>>
    ELSE LET q == Head(normalized_list)
             j == FirstMatch(q, existing_qsos)
         IN  (IF j # 0 /\ _should_update_qso(q, existing_qsos[j])
              THEN <<q>> ELSE <<>>)
             \o update_qsos(Tail(normalized_list), existing_qsos)

\* The row an INSERT writes for record q (created_at, updated_at are NOW()).
InsertedRow(q, id, user_id) ==
    [id |-> id, user_id |-> user_id,
     callsign |-> q.callsign, my_callsign |-> q.my_callsign,
     band |-> q.band, mode |-> q.mode,
     date |-> q.date, time |-> TimeText(Prefix(q.time, 5)),
     lotw |-> q.lotw, gridsquare |-> q.gridsquare,
     app_lotw_rxqsl |-> q.app_lotw_rxqsl, rst_sent |-> q.rst_sent,
     dxcc |-> q.dxcc, created_at |-> "NOW() of the insert"]

\* An INSERT without the ON CONFLICT clause that would write every row.
RECURSIVE InsertEveryRow(_, _, _)
InsertEveryRow(db, normalized_list, user_id) ==
    IF normalized_list = <<>> THEN db
    ELSE InsertEveryRow(db \cup {InsertedRow(Head(normalized_list), uuid4(db), user_id)},
                        Tail(normalized_list), user_id)

\* INSERT ... VALUES ... ON CONFLICT ON CONSTRAINT unique_qso DO NOTHING:
\* a row is written unless a row with its unique_qso columns is in the table
\* already, those written earlier by the same statement included.
RECURSIVE InsertOnConflictDoNothing(_, _, _)
InsertOnConflictDoNothing(db, normalized_list, user_id) ==
    IF normalized_list = <<>> THEN db
    ELSE LET row == InsertedRow(Head(normalized_list), uuid4(db), user_id)
         IN  IF \E r \in db : unique_qso(r) = unique_qso(row)
             THEN InsertOnConflictDoNothing(db, Tail(normalized_list), user_id)
             ELSE InsertOnConflictDoNothing(db \cup {row}, Tail(normalized_list), user_id)

\* The INSERT raises when a value does not cast to its column type.
InsertRaises(normalized_list) ==
    \E i \in DOMAIN normalized_list :
        \/ ~IsDate(normalized_list[i].date)
        \/ ~IsTime(Prefix(normalized_list[i].time, 5))

\* error: cur.execute or conn.commit raised. The statement commits on its own
\* (conn.commit() inside _batch_insert); on an exception the code rolls back and
\* returns 0.
_batch_insert(db, normalized_list, user_id, error) ==
    IF normalized_list = <<>> THEN [db |-> db, count |-> 0, raised |-> FALSE]
    ELSE IF error \/ InsertRaises(normalized_list)
    THEN [db |-> db, count |-> 0, raised |-> TRUE]
    ELSE LET after == InsertOnConflictDoNothing(db, normalized_list, user_id)
         IN  [db |-> after, count |-> Cardinality(after) - Cardinality(db),
              raised |-> FALSE]

\* UpdatedRow setting the time of the record as well.
UpdatedRowRetimed(row, new_q) ==
    [row EXCEPT !.mode = new_q.mode,
                !.lotw = new_q.lotw,
                !.gridsquare = new_q.gridsquare,
                !.app_lotw_rxqsl = new_q.app_lotw_rxqsl,
                !.rst_sent = new_q.rst_sent,
                !.time = TimeText(Prefix(new_q.time, 5))]

\* UPDATE tlog_qso SET ... WHERE id = existing.id, with the values of new_q.
UpdatedRow(row, new_q) ==
    [row EXCEPT !.mode = new_q.mode,
                !.lotw = new_q.lotw,
                !.gridsquare = new_q.gridsquare,
                !.app_lotw_rxqsl = new_q.app_lotw_rxqsl,
                !.rst_sent = new_q.rst_sent,
                !.dxcc = LET dxcc == get_dxcc_from_cty(new_q.callsign)
                         IN  IF dxcc # None THEN dxcc ELSE @]

UpdateWhereId(db, id, new_q) ==
    {IF row.id = id THEN UpdatedRow(row, new_q) ELSE row : row \in db}

\* UpdateRows writing, for each record, the last element of existing_qsos that
\* matches it.
RECURSIVE UpdateRowsLastMatch(_, _, _)
UpdateRowsLastMatch(db, normalized_list, existing_qsos) ==
    IF normalized_list = <<>> THEN db
    ELSE LET new_q == Head(normalized_list)
             hits == {k \in DOMAIN existing_qsos : Matches(new_q, existing_qsos[k])}
         IN  UpdateRowsLastMatch(
                 IF hits = {} THEN db
                 ELSE UpdateWhereId(db,
                          existing_qsos[CHOOSE k \in hits : \A l \in hits : l <= k].id,
                          new_q),
                 Tail(normalized_list), existing_qsos)

\* The statements of _batch_update in order: for each record the first element
\* of existing_qsos that matches it is updated.
RECURSIVE UpdateRows(_, _, _)
UpdateRows(db, normalized_list, existing_qsos) ==
    IF normalized_list = <<>> THEN db
    ELSE LET new_q == Head(normalized_list)
             j == FirstMatch(new_q, existing_qsos)
         IN  UpdateRows(IF j = 0 THEN db
                        ELSE UpdateWhereId(db, existing_qsos[j].id, new_q),
                        Tail(normalized_list), existing_qsos)

\* Number of UPDATE statements _batch_update executes.
UpdateStatements(normalized_list, existing_qsos) ==
    Cardinality({i \in DOMAIN normalized_list :
                    FirstMatch(normalized_list[i], existing_qsos) # 0})

\* error_at = k > 0: the k-th UPDATE raises. The inner "except: continue"
\* swallows it, every later statement fails in the aborted transaction, and the
\* commit ends it as a rollback: the statements before it are counted but
\* nothing is written. error_at = 0: no statement raises.
_batch_update(db, normalized_list, existing_qsos, error_at) ==
    IF normalized_list = <<>> \/ existing_qsos = <<>>
    THEN [db |-> db, count |-> 0, raised |-> FALSE]
    ELSE LET statements == UpdateStatements(normalized_list, existing_qsos)
         IN  IF error_at # 0 /\ error_at <= statements
             THEN [db |-> db, count |-> error_at - 1, raised |-> TRUE]
             ELSE [db |-> UpdateRows(db, normalized_list, existing_qsos),
                   count |-> statements, raised |-> FALSE]

\* The normalization loop: a record lacking CALL, QSO_DATE, TIME_ON or BAND is
\* skipped, every other one is normalized.
HasRequiredFields(qso_data) ==
    /\ qso_data.CALL # <<>>
    /\ qso_data.QSO_DATE # <<>>
    /\ qso_data.TIME_ON # <<>>
    /\ qso_data.BAND # <<>>

RECURSIVE normalized_list(_, _)
normalized_list(qso_data_list, my_callsign) ==
    IF qso_data_list = <<>> THEN <<>>
    ELSE (IF HasRequiredFields(Head(qso_data_list))
          THEN <<IF my_callsign = R3LO /\ Head(qso_data_list) \in DOMAIN prepared
                 THEN prepared[Head(qso_data_list)]
                 ELSE prepare_qso_data(Head(qso_data_list), my_callsign)>>
          ELSE <<>>)
         \o normalized_list(Tail(qso_data_list), my_callsign)

\* What process_qso_batch returns, with db the table as it leaves it and the
\* exceptions its two write paths swallowed; here when it wrote nothing.
BatchResult(db, success, qso_skipped) ==
    [db |-> db, success |-> success, qso_added |-> 0, qso_updated |-> 0,
     qso_skipped |-> qso_skipped, insert_raised |-> FALSE, update_raised |-> FALSE]

\* The return statement: ins and res are what _batch_insert and _batch_update
\* returned.
batch_return(ins, res, skipped) ==
    [db |-> res.db, success |-> TRUE, qso_added |-> ins.count,
     qso_updated |-> res.count, qso_skipped |-> skipped,
     insert_raised |-> ins.raised, update_raised |-> res.raised]

\* process_qso_batch from the update on.
after_insert(ins, update_list, existing_qsos, skipped, env) ==
    batch_return(ins,
                 _batch_update(ins.db, update_list, existing_qsos,
                               env.update_error_at),
                 skipped)

\* process_qso_batch from the classification loop on.
after_lookup(db, nl, existing_qsos, skipped, user_id, env) ==
    after_insert(_batch_insert(db, new_qsos(nl, existing_qsos), user_id,
                               env.insert_error),
                 update_qsos(nl, existing_qsos), existing_qsos, skipped, env)

\* after_normalization on a connection that runs every statement on its own:
\* a lookup that raised leaves an empty list and the statements after it run.
after_normalization_autocommit(db, nl, skipped, user_id, env) ==
    IF nl = <<>> THEN BatchResult(db, TRUE, skipped)
    ELSE after_lookup(db, nl,
                      IF env.select_error \/ SelectRaises(nl) THEN <<>>
                      ELSE _find_existing_batch(nl, env.rows, FALSE),
                      skipped, user_id, env)

\* process_qso_batch from the lookup on: nl is the list of normalized records.
\* After a SELECT that raised the transaction is aborted: every record counts
\* as new, the duplicate check before the insert raises and the outer except
\* reports failure.
after_normalization(db, nl, skipped, user_id, env) ==
    IF nl = <<>> THEN BatchResult(db, TRUE, skipped)
    ELSE IF env.select_error \/ SelectRaises(nl) THEN BatchResult(db, FALSE, 0)
    ELSE after_lookup(db, nl, _find_existing_batch(nl, env.rows, FALSE), skipped,
                      user_id, env)

\* The records skipped by the normalization loop.
skipped_count(qso_data_list) ==
    Cardinality({i \in DOMAIN qso_data_list : ~HasRequiredFields(qso_data_list[i])})

\* One run of process_qso_batch on table db. env is what the database does for
\* this run: conn (a connection was obtained), table (check_table_structure),
\* rows (the fetched rows in the order returned), select_error, insert_error,
\* update_error_at.
process_qso_batch(db, qso_data_list, my_callsign, user_id, env) ==
    IF ~env.conn \/ ~env.table THEN BatchResult(db, FALSE, 0)
    ELSE after_normalization(db, normalized_list(qso_data_list, my_callsign),
                             skipped_count(qso_data_list), user_id, env)

\* ------------------------------------------------- rabbitmq/connection.py

RETRY_DELAY_MS == 2700000

\* queue_declare arguments: where a queue dead-letters to, and its message TTL
\* (0: none).
arguments(queue) ==
    IF queue = "RABBITMQ_QUEUE"
    THEN [x_dead_letter_exchange |-> "RABBITMQ_DLX_EXCHANGE",
          x_dead_letter_routing_key |-> "RABBITMQ_QUEUE",
          x_message_ttl |-> 0]
    ELSE [x_dead_letter_exchange |-> "RABBITMQ_DLX_EXCHANGE",
          x_dead_letter_routing_key |-> "RABBITMQ_QUEUE",
          x_message_ttl |-> RETRY_DELAY_MS]

\* queue_bind calls of connect().
bindings ==
    { [queue |-> "RABBITMQ_QUEUE", exchange |-> "RABBITMQ_EXCHANGE",
       routing_key |-> "RABBITMQ_QUEUE"],
      [queue |-> "RABBITMQ_DELAYED_QUEUE", exchange |-> "RABBITMQ_DELAYED_EXCHANGE",
       routing_key |-> "delayed"],
      [queue |-> "RABBITMQ_QUEUE", exchange |-> "RABBITMQ_DLX_EXCHANGE",
       routing_key |-> "RABBITMQ_QUEUE"] }

QueueNames == {"RABBITMQ_QUEUE", "RABBITMQ_DELAYED_QUEUE"}

\* A direct exchange: the message goes to every queue bound with its routing key.
basic_publish(qs, exchange, routing_key, msg) ==
    [q \in QueueNames |->
        IF \E b \in bindings :
              b.queue = q /\ b.exchange = exchange /\ b.routing_key = routing_key
        THEN Append(qs[q], msg) ELSE qs[q]]

\* The broker dead-letters msg from `queue` (rejected without requeue, or expired):
\* it is published to the queue's dead-letter exchange with its dead-letter key.
dead_letter(qs, queue, msg) ==
    basic_publish(qs, arguments(queue).x_dead_letter_exchange,
                  arguments(queue).x_dead_letter_routing_key, msg)

\* --------------------------------------------------------- lotw/handler.py

\* The value LoTWConsumer passes to MessageHandler.
max_retries == 5

\* config.MAX_RETRIES when the environment does not set it.
MAX_RETRIES == 3

\* What the collaborators do during one process_task, from one named fault:
\* "user" (get_user_id_by_username finds none), "api" (get_lotw_data fails),
\* "conn" (no database connection), "table" (check_table_structure fails),
\* "select" (the batched lookup raises), "insert", "update" (the first UPDATE
\* raises), "insert_update" (both raise), "lastsync" (update_lotw_lastsync fails).
Faults ==
    {"none", "user", "api", "conn", "table", "select", "insert", "update",
     "insert_update", "lastsync"}

Env(fault, rows) ==
    [conn |-> fault # "conn", table |-> fault # "table", rows |-> rows,
     select_error |-> fault = "select",
     insert_error |-> fault \in {"insert", "insert_update"},
     update_error_at |-> IF fault \in {"update", "insert_update"} THEN 1 ELSE 0]

\* The user id process_task works with: the task's, or the one looked up by
\* username when the task carries none (0: not found).
ResolvedUserId(task, fault) ==
    IF task.user_id = 0 THEN (IF fault = "user" THEN 0 ELSE 1) ELSE task.user_id

\* datetime.now(timezone.utc) during process_task, as update_lotw_lastsync
\* receives it.
utcnow == <<"2", "0", "2", "4", "-", "0", "3", "-", "0", "2", " ", "1", "0", ":", "0", "0", ":", "0", "0">>

\* The datetime process_task hands to update_lotw_lastsync, as text
\* 'YYYY-MM-DD HH:MM:SS'; None when datetime.fromisoformat raises.
lotw_datetime(created_at_str) ==
    IF created_at_str = <<>> THEN utcnow
    ELSE IF Contains(<<"T">>, created_at_str)
    THEN LET text == [i \in 1..Len(created_at_str) |->
                         IF created_at_str[i] = "T" THEN " " ELSE created_at_str[i]]
         IN  IF IsTimestamp(Prefix(text, 19)) THEN Prefix(text, 19) ELSE None
    ELSE IF IsTimestamp(created_at_str) THEN created_at_str
    ELSE IF IsDate(created_at_str) THEN created_at_str \o <<" ">> \o Midnight
    ELSE utcnow

\* TaskResult reporting success.
TaskResultSuccess(db, marker, calls, error) ==
    [db |-> db, marker |-> marker, success |-> TRUE, batch_ran |-> FALSE,
     lastsync_called |-> FALSE, insert_raised |-> FALSE, update_raised |-> FALSE,
     qso_added |-> 0, qso_updated |-> 0, qso_skipped |-> 0,
     calls |-> calls, failed |-> 0, error |-> error]

\* What process_task returns, with the table and the marker as it leaves them;
\* here when it returns before process_qso_batch. calls: the collaborators it
\* called, in order; failed: how often it called stats.increment_failed;
\* error: which 'error' the result carries ("user_not_found", "lotw" for the
\* result of a failed get_lotw_data, "no_connection", "batch" for any other
\* failure of the batch, "" on success).
TaskResult(db, marker, calls, error) ==
    [db |-> db, marker |-> marker, success |-> FALSE, batch_ran |-> FALSE,
     lastsync_called |-> FALSE, insert_raised |-> FALSE, update_raised |-> FALSE,
     qso_added |-> 0, qso_updated |-> 0, qso_skipped |-> 0,
     calls |-> calls, failed |-> 0, error |-> error]

\* after_batch writing the marker whatever process_qso_batch returned.
after_batch_always(marker, task, fault, result) ==
    [db |-> result.db,
     marker |-> lotw_datetime(task.created_at),
     success |-> result.success,
     batch_ran |-> TRUE,
     lastsync_called |-> TRUE,
     insert_raised |-> result.insert_raised,
     update_raised |-> result.update_raised,
     qso_added |-> result.qso_added, qso_updated |-> result.qso_updated,
     qso_skipped |-> result.qso_skipped,
     calls |-> <<"get_lotw_data", "process_qso_batch", "update_lotw_lastsync">>,
     failed |-> IF result.success THEN 0 ELSE 1,
     error |-> IF result.success THEN ""
               ELSE IF fault = "conn" THEN "no_connection" ELSE "batch"]

\* process_task from the return of process_qso_batch on. On success the marker
\* is written (update_lotw_lastsync, whose own result is ignored); an exception
\* of datetime.fromisoformat turns the task into a failure.
after_batch(marker, task, fault, result) ==
    [db |-> result.db,
     marker |-> IF result.success /\ fault # "lastsync"
                   /\ lotw_datetime(task.created_at) # None
                THEN lotw_datetime(task.created_at) ELSE marker,
     success |-> result.success /\ lotw_datetime(task.created_at) # None,
     batch_ran |-> TRUE,
     lastsync_called |-> result.success /\ lotw_datetime(task.created_at) # None,
     insert_raised |-> result.insert_raised,
     update_raised |-> result.update_raised,
     qso_added |-> result.qso_added, qso_updated |-> result.qso_updated,
     qso_skipped |-> result.qso_skipped,
     calls |-> IF result.success /\ lotw_datetime(task.created_at) # None
               THEN <<"get_lotw_data", "process_qso_batch", "update_lotw_lastsync">>
               ELSE <<"get_lotw_data", "process_qso_batch">>,
     failed |-> IF result.success /\ lotw_datetime(task.created_at) # None
                THEN 0 ELSE 1,
     error |-> IF result.success /\ lotw_datetime(task.created_at) # None THEN ""
               ELSE IF fault = "conn" THEN "no_connection" ELSE "batch"]

\* The lookup process_task starts with when the task names no user id.
user_lookup(task) ==
    IF task.user_id = 0 THEN <<"get_user_id_by_username">> ELSE <<>>

\* process_task going on to process_qso_batch although get_lotw_data failed.
process_task_unordered(db, marker, task, qso_data, fault, rows) ==
    IF ResolvedUserId(task, fault) = 0
    THEN TaskResult(db, marker, user_lookup(task), "user_not_found")
    ELSE [after_batch(marker, task, fault,
                      process_qso_batch(db, qso_data, task.callsign,
                                        ResolvedUserId(task, fault),
                                        Env(fault, rows)))
             EXCEPT !.calls = user_lookup(task) \o @,
                    !.success = IF fault = "api" THEN FALSE ELSE @,
                    !.error = IF fault = "api" THEN "lotw" ELSE @]

\* process_task on table db and marker lotw_lastsync; qso_data is what the
\* remote service returned (parsed) when get_lotw_data succeeds.
process_task(db, marker, task, qso_data, fault, rows) ==
    IF ResolvedUserId(task, fault) = 0
    THEN TaskResult(db, marker, user_lookup(task), "user_not_found")
    ELSE IF fault = "api"
    THEN TaskResult(db, marker, user_lookup(task) \o <<"get_lotw_data">>, "lotw")
    ELSE LET r == after_batch(marker, task, fault,
                              process_qso_batch(db, qso_data, task.callsign,
                                                ResolvedUserId(task, fault),
                                                Env(fault, rows)))
         IN  [r EXCEPT !.calls = user_lookup(task) \o @]

\* safe_publish, safe_ack, safe_nack: the calls reach the channel only when
\* ch.is_open.
safe(open, calls) == IF open THEN calls ELSE <<>>

\* retry_properties with a delay that grows with the attempts.
retry_properties_backoff(task) ==
    [delivery_mode |-> 2, expiration |-> RETRY_DELAY_MS * (task.retry_count + 1)]

\* The BasicProperties of the copy handle_delivery publishes for a retry of task.
retry_properties(task) ==
    [delivery_mode |-> 2, expiration |-> RETRY_DELAY_MS]

\* handle_result with a budget one attempt short.
handle_result_short(task, success, channel) ==
    LET nothing == [publish |-> FALSE, ack |-> FALSE, nack |-> FALSE,
                    requeue |-> FALSE, retry_count |-> task.retry_count,
                    delivery_mode |-> 0, expiration |-> 0, calls |-> <<>>,
                    failed |-> 0]
        open == channel # "closed"
    IN  IF success
        THEN [nothing EXCEPT !.ack = open, !.calls = safe(open, <<"basic_ack">>)]
        ELSE IF task.retry_count + 1 < max_retries
        THEN [nothing EXCEPT !.publish = channel = "open",
                             !.ack = open,
                             !.retry_count = task.retry_count + 1,
                             !.delivery_mode = retry_properties(task).delivery_mode,
                             !.expiration = retry_properties(task).expiration,
                             !.calls = safe(open, <<"basic_publish", "basic_ack">>)]
        ELSE [nothing EXCEPT !.nack = open, !.calls = safe(open, <<"basic_nack">>)]

\* What handle_delivery sends to the broker for a parsed task whose process_task
\* returned `success`. channel: "open", "closed" (ch.is_open is false: nothing is
\* sent) or "publish_error" (open, but basic_publish raises).
\* delivery_mode, expiration: the properties of the copy it publishes; calls:
\* the calls made on the channel, in order; failed: how often handle_delivery
\* itself called stats.increment_failed.
handle_result(task, success, channel) ==
    LET retry_count == task.retry_count + 1
        nothing == [publish |-> FALSE, ack |-> FALSE, nack |-> FALSE,
                    requeue |-> FALSE, retry_count |-> task.retry_count,
                    delivery_mode |-> 0, expiration |-> 0, calls |-> <<>>,
                    failed |-> 0]
        open == channel # "closed"
    IN  IF success
        THEN [nothing EXCEPT !.ack = open, !.calls = safe(open, <<"basic_ack">>)]
        ELSE IF retry_count <= max_retries
        THEN [nothing EXCEPT !.publish = channel = "open",
                             !.ack = open,
                             !.retry_count = retry_count,
                             !.delivery_mode = retry_properties(task).delivery_mode,
                             !.expiration = retry_properties(task).expiration,
                             !.calls = safe(open, <<"basic_publish", "basic_ack">>)]
        ELSE [nothing EXCEPT !.nack = open, !.calls = safe(open, <<"basic_nack">>)]

\* handle_bad_json asking the broker to requeue.
handle_bad_json_requeue(channel) ==
    [publish |-> FALSE, ack |-> FALSE, nack |-> channel # "closed",
     requeue |-> TRUE, retry_count |-> 0,
     delivery_mode |-> 0, expiration |-> 0,
     calls |-> safe(channel # "closed", <<"basic_nack">>), failed |-> 1]

\* except json.JSONDecodeError: safe_nack(requeue=False), then
\* stats.increment_failed().
handle_bad_json(channel) ==
    [publish |-> FALSE, ack |-> FALSE, nack |-> channel # "closed",
     requeue |-> FALSE, retry_count |-> 0,
     delivery_mode |-> 0, expiration |-> 0,
     calls |-> safe(channel # "closed", <<"basic_nack">>), failed |-> 1]

\* The primary queue after the delivery of its head message was settled with d:
\* acked, it is gone; rejected without requeue, the broker dead-letters it; left
\* unsettled (closed channel), the broker requeues it in place. A retry copy is
\* published to the delayed exchange first.
Settled(qs, msg, d) ==
    LET copy == [msg EXCEPT !.retry_count = d.retry_count,
                            !.delivery_mode = d.delivery_mode,
                            !.expiration = d.expiration,
                            !.fails = msg.fails + 1]
        pub  == IF d.publish
                THEN basic_publish(qs, "RABBITMQ_DELAYED_EXCHANGE", "delayed", copy)
                ELSE qs
        rest == [pub EXCEPT !["RABBITMQ_QUEUE"] = Tail(@)]
    IN  IF d.ack THEN rest
        ELSE IF d.nack /\ ~d.requeue
        THEN dead_letter(rest, "RABBITMQ_QUEUE",
                         [msg EXCEPT !.deaths = msg.deaths + 1,
                                     !.fails = msg.fails + 1])
        ELSE pub

\* ------------------------------------------------------------ inputs

MaxBatch == 2
MaxTasks == 1
MaxDeaths == 2

Batches(records) ==
    UNION {[1..n -> records] : n \in 0..MaxBatch}

created_at == <<"2", "0", "2", "4", "-", "0", "3", "-", "0", "2">>

\* The task the producer publishes (user_id 0: the task names no user id).
Task(user_id) ==
    [body_ok |-> TRUE, body_dict |-> TRUE, callsign |-> R3LO, user_id |-> user_id,
     created_at |-> created_at, retry_count |-> 0,
     delivery_mode |-> 2, expiration |-> 0,
     fails |-> 0, deaths |-> 0]

\* A body json.loads rejects.
Garbage ==
    [Task(0) EXCEPT !.body_ok = FALSE, !.body_dict = FALSE,
                    !.callsign = <<>>, !.created_at = <<>>]

\* A body json.loads accepts that is no object and is not falsy, such as [1].
NotATask ==
    [Garbage EXCEPT !.body_ok = TRUE]

\* The history value of a step that handles no delivery.
NoDelivery(op) ==
    [op |-> op, msg |-> Garbage, qso_data |-> <<>>,
     channel |-> "open", success |-> FALSE, batch_ran |-> FALSE,
     lastsync_called |-> FALSE,
     insert_raised |-> FALSE, update_raised |-> FALSE,
     qso_added |-> 0, qso_updated |-> 0, qso_skipped |-> 0,
     publish |-> FALSE, ack |-> FALSE, nack |-> FALSE, requeue |-> FALSE,
     retry_count |-> 0, delivery_mode |-> 0, expiration |-> 0,
     calls |-> <<>>, failed |-> 0, error |-> "", rows |-> <<>>,
     content |-> <<>>, value |-> <<>>]

Workers == {1, 2}

\* A worker outside process_qso_batch, before its first run.
Idle ==
    [pc |-> "idle", runs |-> 0, qso_data |-> <<>>, existing_qsos |-> <<>>,
     added |-> 0, insert_raised |-> FALSE]

\* The consumer after RabbitMQConnection.connect and basic_consume: the channel
\* is open and no delivery was handed to it yet. unacked: deliveries the broker
\* sent on the channel and holds as unacknowledged; pc: "idle" between
\* deliveries, "handling" inside handle_delivery before process_task,
\* "processed" after it; unsettled: handle_delivery was left without an ack or
\* a nack reaching the broker.
Consumer ==
    [channel |-> "open", running |-> TRUE, unacked |-> 0, pc |-> "idle",
     success |-> FALSE, unsettled |-> FALSE]

\* ------------------------------------------------------------ the consumer

Init ==
    /\ tlog_qso = {}
    /\ lotw_lastsync = None
    /\ queues = [q \in QueueNames |-> <<>>]
    /\ sent = 0
    /\ last = NoDelivery("init")
    /\ w = [p \in Workers |-> Idle]
    /\ consumer = Consumer

\* lotw_producer.send_task: a task is published to the main exchange.
SendTask ==
    /\ sent < MaxTasks
    /\ \E user_id \in {0, 1} :
          queues' = basic_publish(queues, "RABBITMQ_EXCHANGE", "RABBITMQ_QUEUE",
                                  Task(user_id))
    /\ sent' = sent + 1
    /\ last' = NoDelivery("send_task")
    /\ UNCHANGED <<tlog_qso, lotw_lastsync, w, consumer>>

\* Some publisher puts a body that is not JSON on the main exchange.
SendGarbage ==
    /\ sent < MaxTasks
    /\ queues' = basic_publish(queues, "RABBITMQ_EXCHANGE", "RABBITMQ_QUEUE", Garbage)
    /\ sent' = sent + 1
    /\ last' = NoDelivery("send_garbage")
    /\ UNCHANGED <<tlog_qso, lotw_lastsync, w, consumer>>

\* The head of the delayed queue outlives x-message-ttl: the broker dead-letters
\* it, without its expiration property.
Expire ==
    /\ queues["RABBITMQ_DELAYED_QUEUE"] # <<>>
    /\ LET msg == Head(queues["RABBITMQ_DELAYED_QUEUE"])
       IN  queues' = dead_letter(
                        [queues EXCEPT !["RABBITMQ_DELAYED_QUEUE"] = Tail(@)],
                        "RABBITMQ_DELAYED_QUEUE", [msg EXCEPT !.expiration = 0])
    /\ last' = NoDelivery("expire")
    /\ UNCHANGED <<tlog_qso, lotw_lastsync, sent, w, consumer>>

\* handle_delivery of the head of the primary queue whose body parses. A
\* consumer whose channel closed consumes nothing more.
HandleTask ==
    /\ last.channel # "closed"
    /\ queues["RABBITMQ_QUEUE"] # <<>>
    /\ LET msg == Head(queues["RABBITMQ_QUEUE"])
       IN  /\ msg.body_ok
           /\ msg.deaths < MaxDeaths
           /\ \E qso_data \in Batches(ApiRecords), fault \in Faults :
                 \E rows \in Orders(SelectExisting(tlog_qso,
                                       normalized_list(qso_data, msg.callsign),
                                       ResolvedUserId(msg, fault))) :
                    \E r \in {process_task(tlog_qso, lotw_lastsync, msg, qso_data,
                                           fault, rows)} :
                       /\ tlog_qso' = r.db
                       /\ lotw_lastsync' = r.marker
                       /\ \E channel \in {"open", "closed", "publish_error"} :
                             \E d \in {handle_result(msg, r.success, channel)} :
                                /\ queues' = Settled(queues, msg, d)
                                /\ last' = [op |-> "handle_delivery", msg |-> msg,
                                            qso_data |-> IF r.batch_ran
                                                         THEN qso_data ELSE <<>>,
                                            channel |-> channel,
                                            success |-> r.success,
                                            batch_ran |-> r.batch_ran,
                                            lastsync_called |-> r.lastsync_called,
                                            insert_raised |-> r.insert_raised,
                                            update_raised |-> r.update_raised,
                                            qso_added |-> r.qso_added,
                                            qso_updated |-> r.qso_updated,
                                            qso_skipped |-> r.qso_skipped,
                                            publish |-> d.publish, ack |-> d.ack,
                                            nack |-> d.nack, requeue |-> d.requeue,
                                            retry_count |-> d.retry_count,
                                            delivery_mode |-> d.delivery_mode,
                                            expiration |-> d.expiration,
                                            calls |-> <<"process_task">>
                                                      \o r.calls \o d.calls,
                                            failed |-> r.failed + d.failed,
                                            error |-> r.error,
                                            rows |-> <<>>,
                                            content |-> <<>>, value |-> <<>>]
    /\ UNCHANGED <<sent, w, consumer>>

\* handle_delivery of the head of the primary queue whose body json.loads rejects.
HandleBadJson ==
    /\ last.channel # "closed"
    /\ queues["RABBITMQ_QUEUE"] # <<>>
    /\ LET msg == Head(queues["RABBITMQ_QUEUE"])
       IN  /\ ~msg.body_ok
           /\ msg.deaths < MaxDeaths
           /\ \E channel \in {"open", "closed"} :
                 LET d == handle_bad_json(channel)
                 IN  /\ queues' = Settled(queues, msg, d)
                     /\ last' = [NoDelivery("handle_delivery") EXCEPT
                                    !.msg = msg, !.channel = channel,
                                    !.nack = d.nack, !.requeue = d.requeue,
                                    !.calls = d.calls, !.failed = d.failed]
    /\ UNCHANGED <<tlog_qso, lotw_lastsync, sent, w, consumer>>

\* LoTWConsumer.start_consuming after the channel closed: a new consumer
\* connects and consumes the primary queue.
Connect ==
    /\ last.channel = "closed"
    /\ last' = NoDelivery("connect")
    /\ UNCHANGED <<tlog_qso, lotw_lastsync, queues, sent, w, consumer>>

Next ==
    \/ SendTask
    \/ SendGarbage
    \/ Expire
    \/ HandleTask
    \/ HandleBadJson
    \/ Connect

Spec == Init /\ [][Next]_vars

\* ------------------------------------------- process_qso_batch run directly

\* The faults process_qso_batch can meet.
BatchFaults == {"none", "conn", "table", "select", "insert", "update", "insert_update"}

\* The SELECT of _find_existing_batch ran and raised: the database refused it,
\* or a date of the batch does not cast.
LookupRaised(qso_data, fault) ==
    /\ fault \notin {"conn", "table"}
    /\ normalized_list(qso_data, R3LO) # <<>>
    /\ fault = "select" \/ SelectRaises(normalized_list(qso_data, R3LO))

\* db_ops.process_qso_batch(qso_data, 'R3LO', 1) on the table as it stands, for
\* any response built from the catalog; last.error is "lookup" when the lookup
\* raised.
ProcessQsoBatch ==
    /\ \E qso_data \in Batches(Records), fault \in BatchFaults :
          \E rows \in Orders(SelectExisting(tlog_qso,
                                normalized_list(qso_data, R3LO), 1)) :
             \E r \in {process_qso_batch(tlog_qso, qso_data, R3LO, 1,
                                         Env(fault, rows))} :
                /\ tlog_qso' = r.db
                /\ last' = [NoDelivery("process_qso_batch") EXCEPT
                               !.qso_data = qso_data,
                               !.error = IF LookupRaised(qso_data, fault)
                                         THEN "lookup" ELSE "",
                               !.success = r.success, !.batch_ran = TRUE,
                               !.insert_raised = r.insert_raised,
                               !.update_raised = r.update_raised,
                               !.qso_added = r.qso_added,
                               !.qso_updated = r.qso_updated,
                               !.qso_skipped = r.qso_skipped]
    /\ UNCHANGED <<lotw_lastsync, queues, sent, w, consumer>>

NextBatch == ProcessQsoBatch

SpecBatch == Init /\ [][NextBatch]_vars

\* ------------------------------------ two workers in process_qso_batch at once

MaxRuns == 2

\* The contact of QsoA as a later response reports it: confirmed on 2024-03-01.
QsoA2 ==
    [QsoA EXCEPT !.APP_LOTW_RXQSL = QsoB.APP_LOTW_RXQSL]

\* The responses of the two workers: the same contact, alone or followed by
\* the contact of six minutes later.
WorkerBatches == {<<QsoA>>, <<QsoA2>>, <<QsoA, QsoC>>}

\* Worker p enters process_qso_batch(qso_data, 'R3LO', 1): normalization and
\* _find_existing_batch, which reads the rows committed so far.
Lookup(p) ==
    /\ w[p].pc \in {"idle", "done"}
    /\ w[p].runs < MaxRuns
    /\ \E qso_data \in WorkerBatches :
          \E rows \in Orders(SelectExisting(tlog_qso,
                                normalized_list(qso_data, R3LO), 1)) :
             w' = [w EXCEPT ![p] =
                      [pc |-> "lookup", runs |-> w[p].runs + 1,
                       qso_data |-> qso_data,
                       existing_qsos |->
                          _find_existing_batch(normalized_list(qso_data, R3LO),
                                               rows, FALSE),
                       added |-> 0, insert_raised |-> FALSE]]
    /\ UNCHANGED <<tlog_qso, lotw_lastsync, queues, sent, last, consumer>>

\* Worker p classifies its records against the rows it fetched and runs
\* _batch_insert, which commits.
Insert(p) ==
    /\ w[p].pc = "lookup"
    /\ \E ins \in {_batch_insert(tlog_qso,
                                  new_qsos(normalized_list(w[p].qso_data, R3LO),
                                           w[p].existing_qsos),
                                  1, FALSE)} :
          /\ tlog_qso' = ins.db
          /\ w' = [w EXCEPT ![p].pc = "inserted", ![p].added = ins.count,
                            ![p].insert_raised = ins.raised]
    /\ UNCHANGED <<lotw_lastsync, queues, sent, last, consumer>>

\* Worker p runs _batch_update with the rows it fetched, which commits, and
\* returns.
Update(p) ==
    /\ w[p].pc = "inserted"
    /\ tlog_qso' = _batch_update(tlog_qso,
                                 update_qsos(normalized_list(w[p].qso_data, R3LO),
                                             w[p].existing_qsos),
                                 w[p].existing_qsos, 0).db
    /\ w' = [w EXCEPT ![p].pc = "done"]
    /\ UNCHANGED <<lotw_lastsync, queues, sent, last, consumer>>

NextWorkers ==
    \E p \in Workers : Lookup(p) \/ Insert(p) \/ Update(p)

SpecWorkers == Init /\ [][NextWorkers]_vars

\* ------------------------------------------- one contact against one stored row

\* TIME_ON values of incoming records around the tolerance of a row stored at
\* 12:30, to the second.
MatchTimes ==
    {<<"1", "2", "2", "4">>,
     <<"1", "2", "2", "4", "5", "9">>,
     <<"1", "2", "2", "5">>,
     <<"1", "2", "2", "5", "0", "0">>,
     <<"1", "2", "3", "0">>,
     <<"1", "2", "3", "0", "3", "0">>,
     <<"1", "2", "3", "4", "5", "9">>,
     <<"1", "2", "3", "5">>,
     <<"1", "2", "3", "5", "0", "0">>,
     <<"1", "2", "3", "5", "0", "1">>,
     <<"1", "2", "3", "5", "5", "9">>,
     <<"1", "2", "3", "6">>,
     <<"2", "3", "5", "8">>}

\* Records whose rows are stored first: the contact of QsoA at 12:30 and at
\* 23:58, and at 12:30 with another callsign, band or mode.
StoredRecords ==
    {QsoA,
     [QsoA EXCEPT !.TIME_ON = <<"2", "3", "5", "8">>],
     [QsoA EXCEPT !.CALL = <<"U", "A", "1", "A", "B", "D">>],
     [QsoA EXCEPT !.BAND = <<"4", "0", "M">>],
     [QsoA EXCEPT !.MODE = <<"S", "S", "B">>]}

\* The contact of QsoA and its variants in one of callsign, date, band and mode,
\* the one of the next day at 12:30 and just after midnight.
KeyRecords ==
    {QsoA,
     [QsoA EXCEPT !.CALL = <<"U", "A", "1", "A", "B", "D">>],
     [QsoA EXCEPT !.BAND = <<"4", "0", "M">>],
     [QsoA EXCEPT !.MODE = <<"S", "S", "B">>],
     [QsoA EXCEPT !.QSO_DATE = <<"2", "0", "2", "4", "0", "1", "1", "6">>],
     [QsoA EXCEPT !.QSO_DATE = <<"2", "0", "2", "4", "0", "1", "1", "6">>, !.TIME_ON = <<"0", "0", "0", "1">>]}

\* The responses matched against the stored row: one record of the contact of
\* QsoA at any of MatchTimes, or two records of KeyRecords.
MatchBatches ==
    {<<[QsoA EXCEPT !.TIME_ON = t]>> : t \in MatchTimes}
       \cup {<<q1, q2>> : q1 \in KeyRecords, q2 \in KeyRecords}

\* process_qso_batch(qso_data, 'R3LO', 1) with no fault, recorded in last
\* together with the rows the lookup fetched, in the order it returned them.
RunBatch(op, qso_data) ==
    \E rows \in Orders(SelectExisting(tlog_qso, normalized_list(qso_data, R3LO), 1)) :
       \E r \in {process_qso_batch(tlog_qso, qso_data, R3LO, 1, Env("none", rows))} :
          /\ tlog_qso' = r.db
          /\ last' = [NoDelivery(op) EXCEPT
                         !.qso_data = qso_data, !.rows = rows,
                         !.success = r.success, !.batch_ran = TRUE,
                         !.insert_raised = r.insert_raised,
                         !.qso_added = r.qso_added,
                         !.qso_updated = r.qso_updated,
                         !.qso_skipped = r.qso_skipped]

\* The first response of an account: its one record is inserted.
StoreContact ==
    /\ tlog_qso = {}
    /\ \E q \in StoredRecords : RunBatch("store_contact", <<q>>)
    /\ UNCHANGED <<lotw_lastsync, queues, sent, w, consumer>>

\* A later response is reconciled with the stored row.
MatchContact ==
    /\ last.op = "store_contact"
    /\ \E qso_data \in MatchBatches : RunBatch("match_contact", qso_data)
    /\ UNCHANGED <<lotw_lastsync, queues, sent, w, consumer>>

\* QsoB with a QSO_DATE of seven characters.
QsoShortDate ==
    [QsoB EXCEPT !.QSO_DATE = <<"2", "0", "2", "4", "0", "1", "1">>]

\* QsoC with a TIME_ON that is not numeric.
QsoBadTime ==
    [QsoC EXCEPT !.TIME_ON = <<"1", "2", "A", "B">>]

\* Responses of two records, one of them malformed, in either order.
PartialBatches ==
    {<<q1, q2>> : q1 \in {QsoB, QsoC}, q2 \in {QsoShortDate, QsoBadTime}}
        \cup {<<q2, q1>> : q1 \in {QsoB, QsoC}, q2 \in {QsoShortDate, QsoBadTime}}

\* A later response that holds a malformed record.
PartialBatch ==
    /\ last.op = "store_contact"
    /\ \E qso_data \in PartialBatches : RunBatch("partial_batch", qso_data)
    /\ UNCHANGED <<lotw_lastsync, queues, sent, w, consumer>>

\* QsoA with the report sent.
QsoSent ==
    [QsoA EXCEPT !.RST_SENT = <<"5", "9", "9">>]

\* The contact of QsoA logged ten minutes later.
QsoLate ==
    [QsoA EXCEPT !.TIME_ON = <<"1", "2", "4", "0">>]

\* The contact of QsoA logged a minute later, confirmed on 2024-02-15.
QsoMid ==
    [QsoA EXCEPT !.TIME_ON = <<"1", "2", "3", "1">>,
                 !.APP_LOTW_RXQSL = <<"2", "0", "2", "4", "-", "0", "2", "-", "1", "5", " ", "0", "0", ":", "0", "0", ":", "0", "0">>]

\* The rows a later confirmation meets: confirmed on 2024-02-01 (with and
\* without a report sent), on 2024-03-01, or not confirmed yet.
FreshStored == {QsoA, QsoB, QsoSent, QsoC}

\* The records of the later responses: the contact confirmed on 2024-02-01,
\* on 2024-02-15 or on 2024-03-01, at 12:30, 12:31, 12:32 or 12:36, and the
\* contact of ten minutes later.
FreshRecords == {QsoA, QsoA2, QsoB, QsoC, QsoLate, QsoMid}

\* The later responses: one or two of these records.
FreshBatches ==
    {<<q>> : q \in FreshRecords}
        \cup {<<q1, q2>> : q1 \in FreshRecords, q2 \in FreshRecords}

\* The first response of an account whose row a later confirmation meets.
StoreLogged ==
    /\ tlog_qso = {}
    /\ \E q \in FreshStored : RunBatch("store_logged", <<q>>)
    /\ UNCHANGED <<lotw_lastsync, queues, sent, w, consumer>>

\* A later response confirms the stored contact again.
FreshenContact ==
    /\ last.op = "store_logged"
    /\ \E qso_data \in FreshBatches : RunBatch("freshen_contact", qso_data)
    /\ UNCHANGED <<lotw_lastsync, queues, sent, w, consumer>>

\* The contact of QsoC confirmed on 2024-02-01.
QsoCConfirmed ==
    [QsoC EXCEPT !.APP_LOTW_RXQSL = QsoA.APP_LOTW_RXQSL]

\* The later responses met by two stored rows: the record of 12:32, within the
\* tolerance of both rows, alone or next to the record of 12:36.
TieBatches ==
    {<<QsoB>>, <<QsoB, QsoCConfirmed>>, <<QsoCConfirmed, QsoB>>}

\* The first response of an account holds the contact at 12:30 and at 12:36:
\* two rows are inserted.
StorePair ==
    /\ tlog_qso = {}
    /\ RunBatch("store_pair", <<QsoA, QsoCConfirmed>>)
    /\ UNCHANGED <<lotw_lastsync, queues, sent, w, consumer>>

\* A later response holds a record both rows match.
TieBreak ==
    /\ last.op = "store_pair"
    /\ \E qso_data \in TieBatches : RunBatch("tie_break", qso_data)
    /\ UNCHANGED <<lotw_lastsync, queues, sent, w, consumer>>

NextMatch ==
    \/ StoreContact
    \/ MatchContact
    \/ PartialBatch

SpecMatch == Init /\ [][NextMatch]_vars

\* The reconciliation of a later response with one or two stored rows.
NextFresh ==
    \/ StoreLogged
    \/ FreshenContact
    \/ StorePair
    \/ TieBreak

SpecFresh == Init /\ [][NextFresh]_vars

\* ------------------------------------ one account with two station callsigns

\* A second station callsign of account 1.
R3LO_P == <<"R", "3", "L", "O", "/", "P">>

Stations == {R3LO, R3LO_P}

\* process_qso_batch(qso_data, my_callsign, 1) for the task of station
\* my_callsign, with no fault; last.msg is that task.
RunBatchFor(op, qso_data, my_callsign) ==
    \E rows \in Orders(SelectExisting(tlog_qso,
                           normalized_list(qso_data, my_callsign), 1)) :
       \E r \in {process_qso_batch(tlog_qso, qso_data, my_callsign, 1,
                                   Env("none", rows))} :
          /\ tlog_qso' = r.db
          /\ last' = [NoDelivery(op) EXCEPT
                         !.msg = [Task(1) EXCEPT !.callsign = my_callsign],
                         !.qso_data = qso_data, !.rows = rows,
                         !.success = r.success, !.batch_ran = TRUE,
                         !.insert_raised = r.insert_raised,
                         !.qso_added = r.qso_added,
                         !.qso_updated = r.qso_updated,
                         !.qso_skipped = r.qso_skipped]

\* The first response of the account, for one of its stations: the contact
\* confirmed on 2024-02-01, or not confirmed yet.
StoreAt ==
    /\ tlog_qso = {}
    /\ \E my_callsign \in Stations, q \in {QsoA, QsoC} :
          RunBatchFor("store_at", <<q>>, my_callsign)
    /\ UNCHANGED <<lotw_lastsync, queues, sent, w, consumer>>

\* A later response, for the same station or for the other one.
ConfirmAt ==
    /\ last.op = "store_at"
    /\ \E my_callsign \in Stations, qso_data \in FreshBatches :
          RunBatchFor("confirm_at", qso_data, my_callsign)
    /\ UNCHANGED <<lotw_lastsync, queues, sent, w, consumer>>

NextStations ==
    \/ StoreAt
    \/ ConfirmAt

SpecStations == Init /\ [][NextStations]_vars

\* ------------------------------------ the consuming loop and the stop signal

\* channel.basic_qos(prefetch_count=1)
prefetch_count == 1

\* A channel without a prefetch limit.
MayDeliverAlways(unacked) == TRUE

\* With auto_ack=False the broker sends a further delivery on the channel only
\* while it holds fewer than prefetch_count unacknowledged ones.
MayDeliver(unacked) == unacked < prefetch_count

MaxPublished == 2

\* The bodies published to the primary queue.
Bodies == {Task(1), Garbage, NotATask}

\* What the collaborators of process_task do during one delivery.
ConsumeFaults == {"none", "api"}

\* handle_delivery of a body that json.loads turns into a value without .get:
\* task.get raises AttributeError, the generic handler raises it again at its
\* own task.get, so no safe_nack and no increment_failed is reached and the
\* exception leaves handle_delivery.
handle_not_a_dict(channel) ==
    [publish |-> FALSE, ack |-> FALSE, nack |-> FALSE, requeue |-> FALSE,
     retry_count |-> 0, delivery_mode |-> 0, expiration |-> 0,
     calls |-> <<>>, failed |-> 0]

\* What handle_delivery sends to the broker for msg, by the kind of its body.
Outcome(msg, success, channel) ==
    IF ~msg.body_ok THEN handle_bad_json(channel)
    ELSE IF ~msg.body_dict THEN handle_not_a_dict(channel)
    ELSE handle_result(msg, success, channel)

\* A message is published to the main exchange.
Publish ==
    /\ sent < MaxPublished
    /\ \E msg \in Bodies :
          queues' = basic_publish(queues, "RABBITMQ_EXCHANGE", "RABBITMQ_QUEUE", msg)
    /\ sent' = sent + 1
    /\ UNCHANGED <<tlog_qso, lotw_lastsync, last, w, consumer>>

\* The broker sends the next ready message of the primary queue on the channel;
\* it stays in the queue, marked unacknowledged, until it is settled.
Deliver ==
    /\ consumer.channel = "open"
    /\ MayDeliver(consumer.unacked)
    /\ consumer.unacked < Len(queues["RABBITMQ_QUEUE"])
    /\ queues["RABBITMQ_QUEUE"][consumer.unacked + 1].deaths < MaxDeaths
    /\ consumer' = [consumer EXCEPT !.unacked = @ + 1]
    /\ UNCHANGED <<tlog_qso, lotw_lastsync, queues, sent, last, w>>

\* channel.start_consuming calls handle_delivery with the oldest delivery it
\* received.
Dispatch ==
    /\ consumer.pc = "idle"
    /\ consumer.unacked > 0
    /\ consumer' = [consumer EXCEPT !.pc = "handling", !.unsettled = FALSE]
    /\ UNCHANGED <<tlog_qso, lotw_lastsync, queues, sent, last, w>>

\* handle_delivery up to the return of process_task: json.loads, the remote
\* call and the store writes.
Process ==
    /\ consumer.pc = "handling"
    /\ LET msg == Head(queues["RABBITMQ_QUEUE"])
       IN  IF msg.body_ok /\ msg.body_dict
           THEN \E fault \in ConsumeFaults :
                   \E rows \in Orders(SelectExisting(tlog_qso,
                                         normalized_list(<<QsoA>>, msg.callsign),
                                         ResolvedUserId(msg, fault))) :
                      \E r \in {process_task(tlog_qso, lotw_lastsync, msg, <<QsoA>>,
                                             fault, rows)} :
                         /\ tlog_qso' = r.db
                         /\ lotw_lastsync' = r.marker
                         /\ consumer' = [consumer EXCEPT !.pc = "processed",
                                           !.success = r.success]
           ELSE /\ consumer' = [consumer EXCEPT !.pc = "processed", !.success = FALSE]
                /\ UNCHANGED <<tlog_qso, lotw_lastsync>>
    /\ UNCHANGED <<queues, sent, last, w>>

\* The rest of handle_delivery: safe_ack, safe_publish or safe_nack on the
\* channel as it is now, and the return to start_consuming. An exception that
\* leaves handle_delivery ends start_consuming, whose finally closes the
\* channel; the broker then requeues what the channel held.
Settle ==
    /\ consumer.pc = "processed"
    /\ LET msg    == Head(queues["RABBITMQ_QUEUE"])
           raised == msg.body_ok /\ ~msg.body_dict
       IN  \E channel \in (IF consumer.channel = "open" THEN {"open", "publish_error"}
                                                ELSE {"closed"}) :
              \E d \in {Outcome(msg, consumer.success, channel)} :
                 /\ queues' = Settled(queues, msg, d)
                 /\ consumer' = [consumer EXCEPT
                            !.pc = "idle",
                            !.unsettled = ~(d.ack \/ d.nack),
                            !.unacked = IF d.ack \/ d.nack THEN @ - 1
                                        ELSE IF raised THEN 0 ELSE @,
                            !.channel = IF raised THEN "closed" ELSE @]
                 /\ last' = [NoDelivery("handle_delivery") EXCEPT
                                !.msg = msg, !.channel = channel,
                                !.success = consumer.success,
                                !.publish = d.publish, !.ack = d.ack,
                                !.nack = d.nack, !.requeue = d.requeue,
                                !.retry_count = d.retry_count,
                                !.delivery_mode = d.delivery_mode,
                                !.expiration = d.expiration,
                                !.calls = d.calls, !.failed = d.failed]
    /\ UNCHANGED <<tlog_qso, lotw_lastsync, sent, w>>

\* SIGINT or SIGTERM: Python runs LoTWConsumer.signal_handler in the main
\* thread at once, wherever that thread is; it clears running and calls
\* rabbitmq.close(), which stops consuming and closes channel and connection.
\* The broker requeues what the channel held.
Signal ==
    /\ consumer.running
    /\ consumer' = [consumer EXCEPT !.running = FALSE, !.channel = "closed", !.unacked = 0]
    /\ UNCHANGED <<tlog_qso, lotw_lastsync, queues, sent, last, w>>

\* The program is started again after its channel closed.
Restart ==
    /\ consumer.channel = "closed"
    /\ consumer.pc = "idle"
    /\ consumer' = Consumer
    /\ UNCHANGED <<tlog_qso, lotw_lastsync, queues, sent, last, w>>

NextConsume ==
    \/ Publish
    \/ Deliver
    \/ Dispatch
    \/ Process
    \/ Settle
    \/ Signal
    \/ Restart
    \/ Expire

SpecConsume == Init /\ [][NextConsume]_vars

\* ------------------------------------------ the parser and the normalizer

MaxFields == 2

\* One field of a block: <NAME:LENGTH>VALUE, or <NAME>VALUE when length is
\* empty.
Field(name, length, value) == [name |-> name, length |-> length, value |-> value]

FieldPool ==
    {Field(CALL, <<"6">>, <<"U", "A", "1", "A", "B", "C">>),
     Field(<<"Q", "S", "O", "_", "D", "A", "T", "E">>, <<"8">>, <<"2", "0", "2", "4", "0", "1", "1", "5">>),
     Field(<<"M", "O", "D", "E">>, <<"2">>, <<"C", "W", "X">>),
     Field(CALL, <<>>, <<"U", "A", "1", "A", "B", "C">>),
     Field(<<"b", "a", "n", "d">>, <<>>, <<"2", "0", "M", " ">>),
     Field(CALL, <<"6">>, <<"U", "{", "0", ",", "6", "}">>)}

\* The fields of the block <CALL:6>UA1ABC<QSO_DATE:8>20240115<TIME_ON:4>1230
\* <BAND:3>20M<MODE:2>CW.
ExampleFields ==
    <<Field(CALL, <<"6">>, <<"U", "A", "1", "A", "B", "C">>),
      Field(<<"Q", "S", "O", "_", "D", "A", "T", "E">>, <<"8">>, <<"2", "0", "2", "4", "0", "1", "1", "5">>),
      Field(<<"T", "I", "M", "E", "_", "O", "N">>, <<"4">>, <<"1", "2", "3", "0">>),
      Field(<<"B", "A", "N", "D">>, <<"3">>, <<"2", "0", "M">>),
      Field(<<"M", "O", "D", "E">>, <<"2">>, <<"C", "W">>)>>

\* The blocks of the responses: up to MaxFields fields of the pool, and the
\* example.
FieldLists ==
    UNION {[1..n -> FieldPool] : n \in 1..MaxFields} \cup {ExampleFields}

\* The text of a block: its fields, then <eor>.
RECURSIVE Render(_)
Render(fields) ==
    IF fields = <<>> THEN <<"<", "e", "o", "r", ">">>
    ELSE LET f == Head(fields)
         IN  <<"<">> \o f.name
                \o (IF f.length = <<>> THEN <<>> ELSE <<":">> \o f.length)
                \o <<">">> \o f.value \o Render(Tail(fields))

\* What precedes the first block of a response.
Headers == {<<>>, <<"L", "o", "T", "W", "<", "P", "R", "O", "G", "R", "A", "M", "I", "D", ":", "4", ">", "L", "o", "T", "W", "<", "e", "o", "h", ">">>}

\* get_lotw_data hands the text of a response to the parser.
ParseResponse ==
    /\ \E fields \in FieldLists, header \in Headers :
          \E content \in {header \o Render(fields)} :
             last' = [NoDelivery("parse_adif") EXCEPT
                         !.content = content, !.value = fields,
                         !.qso_data = parse_adif_response_all_fields(content)]
    /\ UNCHANGED <<tlog_qso, lotw_lastsync, queues, sent, w, consumer>>

\* TIME_ON values: HHMM, HHMMSS, shorter and longer ones, one with a letter
\* and one with a space inside.
TimePool ==
    {<<>>,
     <<"5">>,
     <<"3", "0">>,
     <<"9", "3", "0">>,
     <<"1", "2", "3", "0">>,
     <<"1", "2", "3", "0", "5">>,
     <<"1", "2", "3", "0", "4", "5">>,
     <<"1", "2", "3", "0", "4", "5", "6">>,
     <<"1", "2", "X", "0">>,
     <<"9", " ", "3", "0">>}

\* QSO_DATE values: YYYYMMDD, shorter and longer ones, the dashed form.
DatePool ==
    {<<>>,
     <<"2", "0", "2", "4">>,
     <<"2", "0", "2", "4", "0", "1", "1">>,
     <<"2", "0", "2", "4", "0", "1", "1", "5">>,
     <<"2", "0", "2", "4", "0", "1", "1", "5", "0">>,
     <<"2", "0", "2", "4", "-", "0", "1", "-", "1", "5">>,
     <<"2", "0", "2", "4", "O", "1", "1", "5">>}

\* APP_LOTW_RXQSL values: missing, in the layout with and without a trailing
\* comment, and texts strptime refuses.
RxqslPool ==
    {<<>>,
     <<"2", "0", "2", "4", "-", "0", "3", "-", "0", "1", " ", "1", "2", ":", "3", "0", ":", "4", "5">>,
     <<"2", "0", "2", "4", "-", "0", "3", "-", "0", "1", " ", "1", "2", ":", "3", "0", ":", "4", "5", " ", "/", "/", " ", "r", "e", "c", "e", "i", "v", "e", "d">>,
     <<"/", "/", " ", "r", "e", "c", "e", "i", "v", "e", "d">>,
     <<"2", "0", "2", "4", "-", "3", "-", "1", " ", "2", ":", "3", ":", "4">>,
     <<"2", "0", "2", "4", "-", "0", "2", "-", "3", "0", " ", "0", "0", ":", "0", "0", ":", "0", "0">>,
     <<"2", "0", "2", "4", "-", "0", "2", "-", "2", "9", " ", "0", "0", ":", "0", "0", ":", "0", "0">>,
     <<"2", "0", "2", "3", "-", "0", "2", "-", "2", "9", " ", "0", "0", ":", "0", "0", ":", "0", "0">>,
     <<"2", "0", "2", "4", "-", "0", "3", "-", "0", "1", " ", "0", "0", ":", "0", "0", ":", "6", "0">>,
     <<"2", "0", "2", "4", "-", "0", "3", "-", "0", "1">>,
     <<"2", "0", "2", "4", "-", "0", "3", "-", "0", "1", "T", "1", "2", ":", "3", "0", ":", "4", "5">>,
     <<"2", "0", "2", "4", "-", "0", "3", "-", "0", "1", " ", " ", "1", "2", ":", "3", "0", ":", "4", "5">>,
     <<"2", "0", "2", "4", "0", "3", "0", "1", "1", "2", "3", "0", "4", "5">>,
     <<"2", "0", "2", "4", "-", "1", "3", "-", "0", "1", " ", "0", "0", ":", "0", "0", ":", "0", "0">>,
     <<"2", "0", "2", "4", "-", "0", "3", "-", "0", "1", " ", "2", "4", ":", "0", "0", ":", "0", "0">>,
     <<"2", "0", "2", "4", "-", "0", "3", "-", "0", "1", " ", "1", "2", ":", "3", "0">>,
     <<"2", "0", "2", "4", "-", "0", "3", "-", "0", "1", " ", "1", "2", ":", "3", "0", ":", "4", "5", "Z">>,
     <<"0", "0", "0", "0", "-", "0", "3", "-", "0", "1", " ", "0", "0", ":", "0", "0", ":", "0", "0">>,
     <<"2", "0", "2", "4", "-", "0", "3", "-", " ", "1", " ", "1", "2", ":", "3", "0", ":", "4", "5">>,
     <<"Y">>,
     <<" ", "2", "0", "2", "4", "-", "0", "3", "-", "0", "1", " ", "1", "2", ":", "3", "0", ":", "4", "5", " ">>}

\* prepare_qso_data normalizes QSO_DATE and TIME_ON of a record.
NormalizeDateTime ==
    /\ \E date_str \in DatePool, time_str \in TimePool :
          last' = [NoDelivery("normalize") EXCEPT
                      !.content = <<date_str, time_str>>,
                      !.value = <<normalize_date(date_str), normalize_time(time_str)>>]
    /\ UNCHANGED <<tlog_qso, lotw_lastsync, queues, sent, w, consumer>>

\* prepare_qso_data parses APP_LOTW_RXQSL of a record.
ParseRxqsl ==
    /\ \E rxqsl_str \in RxqslPool :
          last' = [NoDelivery("parse_lotw_rxqsl") EXCEPT
                      !.content = rxqsl_str,
                      !.value = <<parse_lotw_rxqsl(rxqsl_str)>>]
    /\ UNCHANGED <<tlog_qso, lotw_lastsync, queues, sent, w, consumer>>

NextParse ==
    \/ ParseResponse
    \/ NormalizeDateTime
    \/ ParseRxqsl

SpecParse == Init /\ [][NextParse]_vars

\* ------------------------------------------------------------ properties

\* Seconds since midnight of a time text 'HH:MM:SS'.
clock_seconds(t) ==
    IntOf(SubSeq(t, 1, 2)) * 3600 + IntOf(SubSeq(t, 4, 5)) * 60
        + IntOf(SubSeq(t, 7, 8))

\* The stored rows of account 1 that represent record q: equal callsign, date,
\* band and mode, and a time at most 300 seconds from that of q.
StoredMatches(q) ==
    {row \in tlog_qso :
        /\ row.user_id = 1
        /\ row.callsign = q.callsign /\ row.date = q.date
        /\ row.band = q.band /\ row.mode = q.mode
        /\ abs(clock_seconds(row.time) - clock_seconds(q.time)) <= 300}

\* The normalized records of the response the last step processed.
Incoming == normalized_list(last.qso_data, R3LO)

\* C1: every write to app_lotw_rxqsl of an existing row replaces NULL or a
\* strictly older value by a present one: a present value is never replaced
\* by NULL, by an equal or by an older value.
C1_RxqslOnlyAdvances ==
    [][\A old \in tlog_qso : \A new \in tlog_qso' :
          (new.id = old.id /\ new.app_lotw_rxqsl # old.app_lotw_rxqsl)
             => \/ old.app_lotw_rxqsl = None
                \/ /\ new.app_lotw_rxqsl # None
                   /\ LexGreater(new.app_lotw_rxqsl, old.app_lotw_rxqsl)]_vars

Clean(l) ==
    l.op = "process_qso_batch" /\ l.success /\ ~l.insert_raised /\ ~l.update_raised

RetryBudget(on) ==
    (/\ last.op = "handle_delivery" /\ last.msg.body_ok /\ ~last.success /\ on)
       => /\ last.msg.fails + 1 <= max_retries
             => /\ last.publish /\ last.ack /\ ~last.nack
                /\ last.retry_count = last.msg.retry_count + 1
                /\ queues["RABBITMQ_DELAYED_QUEUE"] # <<>>
                /\ queues["RABBITMQ_DELAYED_QUEUE"]
                      [Len(queues["RABBITMQ_DELAYED_QUEUE"])].retry_count
                      = last.msg.retry_count + 1
          /\ last.msg.fails + 1 = max_retries + 1
             => ~last.publish /\ ~last.ack /\ last.nack /\ ~last.requeue

C5_RejectedNeverRedelivered ==
    last.op = "handle_delivery" => last.msg.deaths = 0

\* C6: an attempt that does not succeed never calls update_lotw_lastsync and
\* leaves lotw_lastsync as it was.
C6_MarkerUntouchedOnFailure ==
    [][(last'.op = "handle_delivery" /\ ~last'.success)
          => (lotw_lastsync' = lotw_lastsync /\ ~last'.lastsync_called)]_vars

\* The attempt after the last retry of a task whose batch failed every time was
\* rejected, the marker still as it was at the start.
C6_MarkerKeptToTheEnd ==
    /\ last.op = "handle_delivery" /\ last.msg.body_ok /\ last.batch_ran
    /\ ~last.success /\ last.msg.retry_count = max_retries /\ last.nack
    /\ lotw_lastsync = None

C8_WriteFailureReported ==
    (last.op = "handle_delivery" /\ (last.insert_raised \/ last.update_raised))
       => /\ ~last.success /\ ~last.lastsync_called
          /\ (last.channel = "open" /\ last.msg.retry_count < max_retries)
                => (last.publish /\ last.ack)

\* C9: whenever a task is acknowledged as done with the marker written, every
\* record of the response that passed normalization is represented in the table.
C9_NoConfirmationLost ==
    (/\ last.op = "handle_delivery" /\ last.success /\ last.ack
     /\ last.lastsync_called)
       => \A i \in DOMAIN Incoming : StoredMatches(Incoming[i]) # {}

\* The confirmation time of the one record of worker p's response.
WorkerRxqsl(p) == normalized_list(w[p].qso_data, R3LO)[1].app_lotw_rxqsl

SameContact(row, q) ==
    /\ row.callsign = q.callsign /\ row.date = q.date
    /\ row.band = q.band /\ row.mode = q.mode

\* The normalized records of the response the next step processes.
IncomingNext == normalized_list(last'.qso_data, R3LO)

\* C11: a record and a stored row of the same callsign, date, band and mode
\* are paired (the record is not inserted as new) exactly when their times of
\* day, taken to the second, differ by at most 300 seconds.
C11_ToleranceToTheSecond ==
    [][(last'.op = "match_contact" /\ Len(last'.qso_data) = 1)
          => \A row \in tlog_qso :
                SameContact(row, IncomingNext[1])
                   => ((last'.qso_added = 0)
                         <=> abs(clock_seconds(row.time)
                                   - clock_seconds(IncomingNext[1].time)) <= 300)]_vars

C13_RetryCountWithinConfiguredMaximum ==
    /\ (last.op = "handle_delivery" /\ last.msg.retry_count >= MAX_RETRIES)
          => ~last.publish
    /\ (last.op = "handle_delivery" /\ last.publish)
          => /\ last.retry_count >= last.msg.retry_count
             /\ last.retry_count <= MAX_RETRIES
    /\ \A i \in DOMAIN queues["RABBITMQ_DELAYED_QUEUE"] :
          queues["RABBITMQ_DELAYED_QUEUE"][i].retry_count <= MAX_RETRIES

\* The calls handle_delivery made on the channel, in order.
ChannelCalls ==
    SelectSeq(last.calls,
              LAMBDA c : c \in {"basic_publish", "basic_ack", "basic_nack"})

\* A failed attempt within the retry budget, on a channel for which `on` holds,
\* first publishes a persistent copy expiring after RETRY_DELAY_MS to the
\* delayed exchange and then acknowledges; no such attempt rejects or requeues.
Rescheduled(on) ==
    (/\ last.op = "handle_delivery"
     /\ last.msg.body_ok
     /\ ~last.success
     /\ last.msg.retry_count + 1 <= max_retries)
        => /\ ~last.nack /\ ~last.requeue
           /\ \A i \in DOMAIN last.calls : last.calls[i] # "basic_nack"
           /\ on => /\ ChannelCalls = <<"basic_publish", "basic_ack">>
                     /\ last.publish /\ last.ack
                     /\ queues["RABBITMQ_DELAYED_QUEUE"] # <<>>
                     /\ LET q    == queues["RABBITMQ_DELAYED_QUEUE"]
                            copy == q[Len(q)]
                        IN  /\ copy.delivery_mode = 2
                            /\ copy.expiration = RETRY_DELAY_MS
                            /\ copy.retry_count = last.msg.retry_count + 1
                            /\ copy.callsign = last.msg.callsign

C15_ExpiredCopyDeliveredOnce ==
    [][/\ last'.op = "expire"
          => /\ queues'["RABBITMQ_DELAYED_QUEUE"] = Tail(queues["RABBITMQ_DELAYED_QUEUE"])
             /\ queues'["RABBITMQ_QUEUE"] =
                   Append(queues["RABBITMQ_QUEUE"],
                          [Head(queues["RABBITMQ_DELAYED_QUEUE"]) EXCEPT !.expiration = 0])
       /\ last'.op = "handle_delivery"
          => /\ last'.msg.expiration = 0
             /\ last'.msg = Head(queues["RABBITMQ_QUEUE"])
             /\ \/ queues'["RABBITMQ_DELAYED_QUEUE"] = queues["RABBITMQ_DELAYED_QUEUE"]
                \/ /\ last'.publish
                   /\ queues'["RABBITMQ_DELAYED_QUEUE"] # <<>>
                   /\ SubSeq(queues'["RABBITMQ_DELAYED_QUEUE"], 1,
                             Len(queues'["RABBITMQ_DELAYED_QUEUE"]) - 1)
                         = queues["RABBITMQ_DELAYED_QUEUE"]
       /\ (last'.op = "handle_delivery" /\ last'.msg.retry_count > 0)
          => last'.msg.deaths = 0]_vars

\* C16: a successful task is acknowledged and leaves the marker at the time
\* the task completed; the marker is written after process_qso_batch and before
\* the acknowledgment.
C16_MarkerIsCompletionTime ==
    (last.op = "handle_delivery" /\ last.success)
        => /\ last.ack
           /\ lotw_lastsync = utcnow
           /\ Len(last.calls) >= 3
           /\ SubSeq(last.calls, Len(last.calls) - 2, Len(last.calls))
                 = <<"process_qso_batch", "update_lotw_lastsync", "basic_ack">>

\* A delivery whose body is not JSON is handled without process_task: the
\* table, the marker and the delayed queue stay as they were and the failed
\* counter grows by one; on a channel for which `on` holds, the one call made is
\* a basic_nack without requeue.
BadJsonRejected(on) ==
    (last'.op = "handle_delivery" /\ ~last'.msg.body_ok)
        => /\ \A i \in DOMAIN last'.calls :
                 last'.calls[i] \notin {"process_task", "basic_publish", "basic_ack"}
           /\ tlog_qso' = tlog_qso
           /\ lotw_lastsync' = lotw_lastsync
           /\ queues'["RABBITMQ_DELAYED_QUEUE"] = queues["RABBITMQ_DELAYED_QUEUE"]
           /\ last'.failed = 1
           /\ Len(last'.calls) <= 1
           /\ ~last'.requeue
           /\ on => (last'.calls = <<"basic_nack">> /\ last'.nack)

UserNotResolved ==
    /\ last.op = "handle_delivery"
    /\ last.msg.body_ok
    /\ last.msg.user_id = 0
    /\ Len(last.calls) >= 2
    /\ last.calls[2] = "get_user_id_by_username"
    /\ \A i \in DOMAIN last.calls : last.calls[i] # "get_lotw_data"

\* C18: a task whose account resolves to no user id is reported as failed and is
\* not retried: no copy is published to the delayed exchange and its retry_count
\* is not incremented.
C18_UnresolvedUserNotRetried ==
    UserNotResolved
        => /\ ~last.success
           /\ ~last.publish
           /\ \A i \in DOMAIN last.calls : last.calls[i] # "basic_publish"
           /\ last.retry_count = last.msg.retry_count
           /\ queues["RABBITMQ_DELAYED_QUEUE"] = <<>>

\* process_task met a transient failure: get_lotw_data failed, or
\* process_qso_batch obtained no database connection.
TransientFailure ==
    /\ last.op = "handle_delivery"
    /\ last.error \in {"lotw", "no_connection"}

\* A transient failure makes process_task return success = false, with nothing
\* written; within the retry budget, on a channel for which `on` holds, the task
\* is then published to the delayed exchange with retry_count + 1 and the
\* delivery acknowledged.
TransientRescheduled(on) ==
    TransientFailure
        => /\ ~last.success
           /\ last.calls[1] = "process_task"
           /\ ~last.lastsync_called
           /\ (last.msg.retry_count + 1 <= max_retries /\ on)
                 => /\ last.publish /\ last.ack /\ ~last.nack
                    /\ last.retry_count = last.msg.retry_count + 1
                    /\ queues["RABBITMQ_DELAYED_QUEUE"] # <<>>
                    /\ LET q == queues["RABBITMQ_DELAYED_QUEUE"]
                       IN  q[Len(q)].retry_count = last.msg.retry_count + 1

Malformed(qso_data) ==
    \/ Len(strip(qso_data.QSO_DATE)) # 8
    \/ ~IsInt(strip(qso_data.TIME_ON))

\* C20: of a batch with malformed records only those are skipped and counted in
\* qso_skipped; the batch is reported as success and every other record has,
\* afterwards, a row of its contact within the tolerance whose confirmation time
\* is not older than the record's.
C20_OnlyMalformedSkipped ==
    [][last'.op = "partial_batch"
          => /\ last'.success
             /\ last'.qso_skipped =
                   Cardinality({i \in DOMAIN last'.qso_data : Malformed(last'.qso_data[i])})
             /\ \A i \in DOMAIN last'.qso_data :
                   ~Malformed(last'.qso_data[i])
                      => LET q == prepare_qso_data(last'.qso_data[i], R3LO)
                         IN  \E row \in tlog_qso' :
                                /\ SameContact(row, q)
                                /\ abs(clock_seconds(row.time) - clock_seconds(q.time)) <= 300
                                /\ q.app_lotw_rxqsl # None
                                      => ~LexGreater(q.app_lotw_rxqsl, row.app_lotw_rxqsl)]_vars

\* The records worker p classified as new from the rows it fetched.
WorkerNew(p) ==
    new_qsos(normalized_list(w[p].qso_data, R3LO), w[p].existing_qsos)

C22_UpdateKeepsTheLoggedContact ==
    [][\A row \in tlog_qso :
          \E after \in tlog_qso' :
             /\ after.id = row.id
             /\ after.user_id = row.user_id
             /\ after.callsign = row.callsign
             /\ after.my_callsign = row.my_callsign
             /\ after.date = row.date
             /\ after.band = row.band
             /\ after.time = row.time
             /\ after.created_at = row.created_at]_vars

\* The row logged at 12:30 was updated from the record of 12:32 and kept its time.
C22_UpdatedAtItsOwnTime ==
    /\ last.op = "process_qso_batch"
    /\ last.qso_updated = 1
    /\ last.qso_data = <<QsoB>>
    /\ \E row \in tlog_qso :
          /\ row.time = TimeText(<<"1", "2", ":", "3", "0">>)
          /\ row.app_lotw_rxqsl = prepared[QsoB].app_lotw_rxqsl

\* C23: a run of process_qso_batch leaves the report sent of every stored row
\* as the store logged it.
C23_StoreLoggedFieldsKept ==
    [][last'.op = "freshen_contact"
          => \A row \in tlog_qso :
                \E after \in tlog_qso' :
                   after.id = row.id /\ after.rst_sent = row.rst_sent]_vars

FirstFetched(rows, q) ==
    LET hits == {j \in DOMAIN rows :
                    /\ SameContact(rows[j], q)
                    /\ abs(clock_seconds(rows[j].time) - clock_seconds(q.time)) <= 300}
    IN  IF hits = {} THEN 0 ELSE CHOOSE j \in hits : \A k \in hits : j <= k

\* C25: the record of 12:32, fresher than both rows that match it, updates the
\* first of them in the order the lookup returned the rows, and only that one,
\* whatever else the batch holds and in whatever order.
C25_FirstFetchedRowIsPaired ==
    [][last'.op = "tie_break"
          => LET q == prepare_qso_data(QsoB, R3LO)
                 j == FirstFetched(last'.rows, q)
             IN  /\ j # 0
                 /\ \A row \in tlog_qso :
                       \E after \in tlog_qso' :
                          /\ after.id = row.id
                          /\ after.app_lotw_rxqsl =
                                IF row.id = last'.rows[j].id
                                THEN q.app_lotw_rxqsl ELSE row.app_lotw_rxqsl]_vars

\* The stored row satisfies the match rule for record q: the same contact, the
\* times at most 300 seconds apart.
WithinTolerance(row, q) ==
    /\ SameContact(row, q)
    /\ abs(clock_seconds(row.time) - clock_seconds(q.time)) <= 300

\* The rows a run added to the table.
NewRows == {new \in tlog_qso' : \A row \in tlog_qso : row.id # new.id}

\* The rows a run wrote for record q.
InsertedFor(q) ==
    {new \in NewRows : SameContact(new, q) /\ new.time = TimeText(Prefix(q.time, 5))}

\* C26: in a run that reports success and whose insert did not fail, a record
\* some stored row satisfies the match rule for is matched, so no row is
\* inserted for it; every other record is new and a row is inserted for it; the
\* rows written are those of the new records and the updates are at most as
\* many as the matched records.
C26_NewOrMatched ==
    [][(/\ last'.op \in {"match_contact", "freshen_contact", "tie_break"}
        /\ last'.success
        /\ ~last'.insert_raised)
          => /\ \A i \in DOMAIN IncomingNext :
                   IF \E row \in tlog_qso : WithinTolerance(row, IncomingNext[i])
                   THEN InsertedFor(IncomingNext[i]) = {}
                   ELSE InsertedFor(IncomingNext[i]) # {}
             /\ last'.qso_added = Cardinality(NewRows)
             /\ last'.qso_updated <=
                   Cardinality({i \in DOMAIN IncomingNext :
                                   \E row \in tlog_qso :
                                      WithinTolerance(row, IncomingNext[i])})]_vars

\* C27: a delivery handed to handle_delivery on an open channel reaches exactly
\* one outcome when the handler is left: acknowledged with nothing published,
\* rescheduled (one publish to the delayed exchange, then the ack) or
\* dead-lettered (a nack without requeue, nothing published); never an ack and
\* a nack together, never neither.
C27_SettledExactlyOnce ==
    (last.op = "handle_delivery" /\ last.channel # "closed")
        => \/ /\ ChannelCalls = <<"basic_ack">>
              /\ last.ack /\ ~last.nack /\ ~last.publish
           \/ /\ ChannelCalls = <<"basic_publish", "basic_ack">>
              /\ last.ack /\ ~last.nack
              /\ last.publish \/ last.channel = "publish_error"
           \/ /\ ChannelCalls = <<"basic_nack">>
              /\ last.nack /\ ~last.ack /\ ~last.requeue /\ ~last.publish

\* C28: a task is handed to process_task at most max_retries + 1 times: the
\* delivery being handled failed at most max_retries times before, and a task
\* that was dead-lettered is not handled again.
C28_ProcessedWithinBudgetThenRests ==
    (last.op = "handle_delivery" /\ last.msg.body_ok)
        => /\ last.msg.fails <= max_retries
           /\ last.msg.deaths = 0

\* C29: the consumer holds at most one unacknowledged delivery; handle_delivery
\* is entered for a delivery only when the one before it was acked or nacked and
\* nothing of an earlier task is still in progress; and while a task is in
\* progress it is the only delivery the consumer holds.
C29_OneDeliveryAtATime ==
    [][/\ consumer.unacked <= 1
       /\ (consumer.pc = "idle" /\ consumer'.pc = "handling")
             => /\ ~consumer.unsettled
                /\ consumer.unacked = 1
       /\ consumer.pc # "idle" => consumer'.unacked <= 1]_vars

\* A second message waits in the primary queue while the first is being
\* processed on an open channel.
C29_NextTaskWaits ==
    /\ consumer.pc = "processed"
    /\ consumer.channel = "open"
    /\ consumer.unacked = 1
    /\ Len(queues["RABBITMQ_QUEUE"]) = 2
    /\ tlog_qso # {}

\* C30: after a stop signal the channel stays open while a delivery is being
\* handled, and the delivery that was in progress when the signal came is
\* acked or nacked before the handler is left.
C30_TaskFinishedBeforeClose ==
    [][/\ (~consumer'.running /\ consumer'.pc # "idle")
             => consumer'.channel = "open"
       /\ (~consumer.running /\ consumer.pc = "processed" /\ consumer'.pc = "idle")
             => ~consumer'.unsettled]_vars

\* The fields of a block are all written with a length their value fills.
LengthTagged(fields) ==
    \A i \in DOMAIN fields :
       /\ fields[i].length # <<>>
       /\ Len(fields[i].value) >= IntOf(fields[i].length)

\* The record the fields of a block describe: each name with its value cut to
\* the length written in its tag.
RECURSIVE RecordOf(_)
RecordOf(fields) ==
    IF fields = <<>> THEN <<>>
    ELSE LET f == fields[Len(fields)]
         IN  (f.name :> Prefix(f.value, IntOf(f.length)))
                @@ RecordOf(SubSeq(fields, 1, Len(fields) - 1))

\* C31: a block of length-tagged fields that names a CALL parses to exactly one
\* record, which holds every field name with its value cut to the length of
\* its tag.
C31_LengthTaggedFieldsParsed ==
    (/\ last.op = "parse_adif"
     /\ LengthTagged(last.value)
     /\ \E i \in DOMAIN last.value : last.value[i].name = CALL)
        => last.qso_data = <<RecordOf(last.value)>>

\* C32: TIME_ON of 4 characters HHMM becomes HH:MM:00, of 6 characters HHMMSS
\* becomes HH:MM:SS, a shorter one is first padded with zeros on the left to 4
\* characters, every other length becomes 00:00:00; QSO_DATE of 8 characters
\* YYYYMMDD becomes YYYY-MM-DD and every other length becomes the empty date.
C32_DateAndTimeNormalized ==
    last.op = "normalize" =>
        LET d == last.content[1]
            t == last.content[2]
            padded == [i \in 1..(4 - Len(t)) |-> "0"] \o t
            hhmm == IF Len(t) < 4 THEN padded ELSE t
        IN  /\ Len(d) = 8 =>
                  last.value[1] = SubSeq(d, 1, 4) \o <<"-">> \o SubSeq(d, 5, 6)
                                     \o <<"-">> \o SubSeq(d, 7, 8)
            /\ Len(d) # 8 => last.value[1] = <<>>
            /\ Len(t) <= 4 =>
                  last.value[2] = SubSeq(hhmm, 1, 2) \o <<":">> \o SubSeq(hhmm, 3, 4)
                                     \o <<":", "0", "0">>
            /\ Len(t) = 6 =>
                  last.value[2] = SubSeq(t, 1, 2) \o <<":">> \o SubSeq(t, 3, 4)
                                     \o <<":">> \o SubSeq(t, 5, 6)
            /\ Len(t) \notin (0..4) \cup {6} => last.value[2] = Midnight

\* QSO_DATE 20240115 and TIME_ON 1230 were normalized to 2024-01-15 and
\* 12:30:00.
C32_ExampleNormalized ==
    /\ last.op = "normalize"
    /\ last.content = <<<<"2", "0", "2", "4", "0", "1", "1", "5">>, <<"1", "2", "3", "0">>>>
    /\ last.value = <<<<"2", "0", "2", "4", "-", "0", "1", "-", "1", "5">>,
                      <<"1", "2", ":", "3", "0", ":", "0", "0">>>>

\* C33: a freshness timestamp that is missing, or whose text before a trailing
\* comment strptime does not parse in the layout YYYY-MM-DD HH:MM:SS,
\* normalizes to absent; a value other than absent is the moment the text
\* names.
C33_UnparsedTimestampAbsent ==
    last.op = "parse_lotw_rxqsl" =>
        LET date_part == strip(BeforeComment(last.content))
        IN  /\ (last.content = <<>> \/ strptime(date_part) = None)
                   => last.value = <<None>>
            /\ last.value # <<None>> => last.value = <<strptime(date_part)>>

\* A text that is not in the layout was handed to parse_lotw_rxqsl and came
\* back absent.
C33_RefusedTimestamp ==
    /\ last.op = "parse_lotw_rxqsl"
    /\ last.content # <<>>
    /\ strptime(strip(BeforeComment(last.content))) = None
    /\ last.value = <<None>>

\* C34: when handle_delivery returns from a failed attempt within the retry
\* budget, a copy of the task is in the delayed queue or the delivery is still
\* unacknowledged; a publish that fails leaves the delivery unacknowledged.
C34_FailedTaskNotLost ==
    (/\ last.op = "handle_delivery"
     /\ last.msg.body_ok
     /\ ~last.success
     /\ last.msg.retry_count + 1 <= max_retries)
        => \/ /\ last.publish
              /\ \E i \in DOMAIN queues["RABBITMQ_DELAYED_QUEUE"] :
                    LET copy == queues["RABBITMQ_DELAYED_QUEUE"][i]
                    IN  /\ copy.callsign = last.msg.callsign
                        /\ copy.retry_count = last.msg.retry_count + 1
           \/ ~last.ack /\ ~last.nack

C36_FreshestOfTheBatchStays ==
    [][last'.op = "freshen_contact"
          => \A row \in tlog_qso :
                LET hits == {i \in DOMAIN IncomingNext :
                                WithinTolerance(row, IncomingNext[i])}
                IN  Cardinality(hits) >= 2
                       => \E after \in tlog_qso' :
                             /\ after.id = row.id
                             /\ ~LexGreater(row.app_lotw_rxqsl, after.app_lotw_rxqsl)
                             /\ \A i \in hits :
                                   ~LexGreater(IncomingNext[i].app_lotw_rxqsl,
                                               after.app_lotw_rxqsl)]_vars

\* C37: a run for the task of station A leaves every stored row of another
\* station as it was, and matches no record with such a row: while the table
\* holds no row of station A, no record is taken for an update and a row is
\* inserted.
C37_OtherStationUntouched ==
    [][last'.op = "confirm_at"
          => /\ \A row \in tlog_qso :
                   row.my_callsign # last'.msg.callsign => row \in tlog_qso'
             /\ (\A row \in tlog_qso : row.my_callsign # last'.msg.callsign)
                   => /\ last'.qso_updated = 0
                      /\ last'.qso_added >= 1]_vars

\* The list the lookup of the next step returned to process_qso_batch.
ExistingNext == _find_existing_batch(IncomingNext, last'.rows, FALSE)

\* The records of the next step that the classification loop put in the update
\* list after comparing them with the stored row of identifier id.
ComparedWith(id) ==
    {i \in DOMAIN IncomingNext :
        LET j == FirstMatch(IncomingNext[i], ExistingNext)
        IN  /\ j # 0
            /\ ExistingNext[j].id = id
            /\ _should_update_qso(IncomingNext[i], ExistingNext[j])}

\* C38: a stored row is rewritten only for a record that was put in the update
\* list after the freshness comparison with that very row, and the row every
\* such record was compared with holds afterwards the confirmation time of
\* one of the records compared with it.
C38_WrittenRowIsComparedRow ==
    [][last'.op = "tie_break"
          => \A row \in tlog_qso :
                /\ row \notin tlog_qso' => ComparedWith(row.id) # {}
                /\ ComparedWith(row.id) # {}
                      => \E after \in tlog_qso' :
                            /\ after.id = row.id
                            /\ \E i \in ComparedWith(row.id) :
                                  after.app_lotw_rxqsl
                                      = IncomingNext[i].app_lotw_rxqsl]_vars

\* Two fetched rows matched the record of 12:32, which came after the record
\* of 12:36 in the batch; it was compared with the row of 12:36 and that row
\* was rewritten.
C38_SecondRowComparedAndWritten ==
    /\ last.op = "tie_break"
    /\ last.qso_data = <<QsoCConfirmed, QsoB>>
    /\ last.qso_updated = 1
    /\ \E row \in tlog_qso :
          /\ row.time = TimeText(<<"1", "2", ":", "3", "6">>)
          /\ row.app_lotw_rxqsl = prepared[QsoB].app_lotw_rxqsl
    /\ \E row \in tlog_qso :
          /\ row.time = TimeText(<<"1", "2", ":", "3", "0">>)
          /\ row.app_lotw_rxqsl = prepared[QsoA].app_lotw_rxqsl

\* The next step called collaborator a and, later, collaborator b.
CalledBefore(a, b) ==
    \E i, j \in DOMAIN last'.calls :
       i < j /\ last'.calls[i] = a /\ last'.calls[j] = b

\* C39: a task whose user is not resolved or whose remote call fails writes no
\* row and no marker and never reaches process_qso_batch; rows are written
\* only by a process_qso_batch called after get_lotw_data, and the marker only
\* by an update_lotw_lastsync called after a process_qso_batch that returned
\* success.
C39_StepsInOrder ==
    [][(last'.op = "handle_delivery" /\ last'.msg.body_ok)
          => /\ last'.error \in {"user_not_found", "lotw"}
                   => /\ tlog_qso' = tlog_qso
                      /\ lotw_lastsync' = lotw_lastsync
                      /\ ~last'.batch_ran /\ ~last'.lastsync_called
                      /\ \A i \in DOMAIN last'.calls :
                            last'.calls[i] \notin {"process_qso_batch",
                                                  "update_lotw_lastsync"}
             /\ tlog_qso' # tlog_qso
                   => /\ last'.batch_ran
                      /\ CalledBefore("get_lotw_data", "process_qso_batch")
             /\ (lotw_lastsync' # lotw_lastsync \/ last'.lastsync_called)
                   => /\ last'.batch_ran /\ last'.success
                      /\ CalledBefore("process_qso_batch", "update_lotw_lastsync")]_vars

\* The remote call of a task failed on a retry, with a contact row in the
\* table: the task ended without reaching process_qso_batch.
C39_RemoteCallFailed ==
    /\ last.op = "handle_delivery"
    /\ last.error = "lotw"
    /\ ~last.success /\ ~last.batch_ran /\ ~last.lastsync_called
    /\ last.msg.retry_count >= 1
    /\ tlog_qso # {}

====
